---- MODULE Spec2Model ----
(***************************************************************************)
(* A model of the SynMax data agent: the rule-based planner                *)
(* (src/src/planner.py), the filter engine and analytical operations       *)
(* (src/src/analysis.py) and the plan executor and session loop            *)
(* (src/src/agent.py).                                                     *)
(*                                                                         *)
(* Python strings are TLA+ strings (Len, SubSeq and \o act on them).       *)
(* Optional[T] is a sequence: <<>> is None and <<x>> is the value x.       *)
(* A dict is the sequence of its items [key, value] in insertion order.     *)
(* A value computed once and used several times is passed as a parameter   *)
(* to the operator that uses it.                                           *)
(***************************************************************************)
EXTENDS Integers, Sequences, FiniteSets, TLC

VARIABLES pc, question, cols, plan, df, loaded, arg, result, out

vars == <<pc, question, cols, plan, df, loaded, arg, result, out>>

(***************************************************************************)
(* Strings                                                                 *)
(***************************************************************************)
None == <<>>

Some(x) == <<x>>

Truthy(opt) == opt # None /\ opt[1] # ""

Min(a, b) == IF a <= b THEN a ELSE b

MinOf(S) == CHOOSE i \in S : \A j \in S : i <= j

MaxOf(S) == CHOOSE i \in S : \A j \in S : j <= i

Range(f) == {f[i] : i \in DOMAIN f}

InList(x, xs) == x \in Range(xs)

\* s[i-1:j] of Python, positions counted from 1 and clamped to the string
Slice(s, i, j) ==
    IF i > j \/ j < 1 \/ i > Len(s) THEN ""
    ELSE SubSeq(s, IF i < 1 THEN 1 ELSE i, IF j > Len(s) THEN Len(s) ELSE j)

\* The character s[i-1], "" outside the string
Ch(s, i) == IF i >= 1 /\ i <= Len(s) THEN SubSeq(s, i, i) ELSE ""

Chars(s) == {SubSeq(s, i, i) : i \in 1..Len(s)}

\* Every character of the model's alphabet, in code-point order
Ascii == " -/0123456789=ABCDEFGHIJKLMNOPQRSTUVWXYZ_abcdefghijklmnopqrstuvwxyz"

UpperChars == "ABCDEFGHIJKLMNOPQRSTUVWXYZ"

LowerChars == "abcdefghijklmnopqrstuvwxyz"

\* \d, \s, \w, [a-z0-9_ ] and [a-z0-9_/\-] of the regular expressions
DigitClass == Chars("0123456789")

SpaceClass == {" "}

WordClass == Chars(LowerChars) \cup Chars(UpperChars) \cup DigitClass \cup {"_"}

ColClass == Chars(LowerChars) \cup DigitClass \cup {"_", " "}

ValClass == Chars(LowerChars) \cup DigitClass \cup {"_", "/", "-"}

\* The position of character c in s, 0 when it is not there
IndexIn(c, s) == IF c \in Chars(s) THEN CHOOSE i \in 1..Len(s) : SubSeq(s, i, i) = c ELSE 0

Ord(c) == IndexIn(c, Ascii)

MapCh(c, from, to) == IF c \in Chars(from) THEN Ch(to, IndexIn(c, from)) ELSE c

RECURSIVE Lower(_)
Lower(s) == IF s = "" THEN "" ELSE MapCh(Ch(s, 1), UpperChars, LowerChars) \o Lower(Slice(s, 2, Len(s)))

RECURSIVE Upper(_)
Upper(s) == IF s = "" THEN "" ELSE MapCh(Ch(s, 1), LowerChars, UpperChars) \o Upper(Slice(s, 2, Len(s)))

RECURSIVE Strip(_)
Strip(s) == IF s = "" THEN ""
            ELSE IF Ch(s, 1) = " " THEN Strip(Slice(s, 2, Len(s)))
            ELSE IF Ch(s, Len(s)) = " " THEN Strip(Slice(s, 1, Len(s) - 1))
            ELSE s

\* p in s
Contains(p, s) == \E i \in 1..(Len(s) - Len(p) + 1) : SubSeq(s, i, i + Len(p) - 1) = p

AnyIn(ps, s) == \E p \in ps : Contains(p, s)

\* s[i-1:].startswith(p)
At(p, s, i) == i >= 1 /\ Slice(s, i, i + Len(p) - 1) = p

\* The end of the longest run of characters of class that starts at s[i]
\* (i - 1 when the run is empty)
RECURSIVE RunEnd(_, _, _)
RunEnd(s, i, class) == IF Ch(s, i) \in class THEN RunEnd(s, i + 1, class) ELSE i - 1

\* int(s) of a string of digits
RECURSIVE ParseDigits(_)
ParseDigits(s) == IF s = "" THEN 0
                  ELSE 10 * ParseDigits(Slice(s, 1, Len(s) - 1)) + (IndexIn(Ch(s, Len(s)), "0123456789") - 1)

\* str(n), n >= 0
RECURSIVE Str(_)
Str(n) == IF n < 10 THEN Ch("0123456789", n + 1) ELSE Str(n \div 10) \o Ch("0123456789", (n % 10) + 1)

\* s < t in Python's string order
RECURSIVE StrLess(_, _)
StrLess(s, t) == IF t = "" THEN FALSE
                 ELSE IF s = "" THEN TRUE
                 ELSE IF Ch(s, 1) = Ch(t, 1) THEN StrLess(Slice(s, 2, Len(s)), Slice(t, 2, Len(t)))
                 ELSE Ord(Ch(s, 1)) < Ord(Ch(t, 1))

EmptyDict == <<>>

\* A dict keeps its insertion order: a sequence of items with distinct keys
HasKey(d, k) == \E i \in 1..Len(d) : d[i].key = k

\* d[k] = v
DictSet(d, k, v) ==
    IF HasKey(d, k) THEN [i \in 1..Len(d) |-> IF d[i].key = k THEN [key |-> k, value |-> v] ELSE d[i]]
    ELSE Append(d, [key |-> k, value |-> v])

(***************************************************************************)
(* re.search for the planner's patterns.  A pattern is a sequence of       *)
(* tokens; each quantified class of these patterns is followed by text     *)
(* that cannot start inside its run, so a run is matched whole:            *)
(*   lit    the literal text s                                             *)
(*   opt    the literal text s, optional                                   *)
(*   run    min..max characters of class (max = 0: any number; the whole   *)
(*          run must fit), captured when cap                               *)
(*   spcol  \s+([a-z0-9_ ]+): the spaces, then the captured run; a run of  *)
(*          spaces alone gives its last space to the group                 *)
(*   wb     \b                                                             *)
(*   end    $                                                              *)
(***************************************************************************)
Lit(s) == [t |-> "lit", s |-> s, class |-> {}, min |-> 0, max |-> 0, cap |-> FALSE]

OptLit(s) == [t |-> "opt", s |-> s, class |-> {}, min |-> 0, max |-> 0, cap |-> FALSE]

Run(class, min, max, cap) == [t |-> "run", s |-> "", class |-> class, min |-> min, max |-> max, cap |-> cap]

SpCol == [t |-> "spcol", s |-> "", class |-> {}, min |-> 0, max |-> 0, cap |-> TRUE]

WordBoundary == [t |-> "wb", s |-> "", class |-> {}, min |-> 0, max |-> 0, cap |-> FALSE]

EndOfText == [t |-> "end", s |-> "", class |-> {}, min |-> 0, max |-> 0, cap |-> FALSE]

NoMatch == [ok |-> FALSE, groups |-> <<>>]

RECURSIVE Match(_, _, _, _)
\* a run token whose run ends at e
MatchRun(q, pos, tok, rest, groups, e) ==
    IF e - pos + 1 < tok.min \/ (tok.max > 0 /\ e - pos + 1 > tok.max) THEN NoMatch
    ELSE Match(q, e + 1, rest, IF tok.cap THEN Append(groups, Slice(q, pos, e)) ELSE groups)

\* \s+([a-z0-9_ ]+) where the spaces end at se and the run of [a-z0-9_ ] at ce
MatchSpCol(q, pos, rest, groups, se, ce) ==
    IF se < pos \/ (ce = se /\ se = pos) THEN NoMatch
    ELSE Match(q, ce + 1, rest, Append(groups, IF ce > se THEN Slice(q, se + 1, ce) ELSE " "))

\* The pattern pat matched at position pos of q
Match(q, pos, pat, groups) ==
    IF pat = <<>> THEN [ok |-> TRUE, groups |-> groups]
    ELSE IF pat[1].t = "lit"
         THEN (IF At(pat[1].s, q, pos) THEN Match(q, pos + Len(pat[1].s), Tail(pat), groups) ELSE NoMatch)
    ELSE IF pat[1].t = "opt"
         THEN Match(q, IF At(pat[1].s, q, pos) THEN pos + Len(pat[1].s) ELSE pos, Tail(pat), groups)
    ELSE IF pat[1].t = "wb"
         THEN (IF (Ch(q, pos - 1) \in WordClass) # (Ch(q, pos) \in WordClass)
               THEN Match(q, pos, Tail(pat), groups) ELSE NoMatch)
    ELSE IF pat[1].t = "end"
         THEN (IF pos = Len(q) + 1 THEN Match(q, pos, Tail(pat), groups) ELSE NoMatch)
    ELSE IF pat[1].t = "run"
         THEN MatchRun(q, pos, pat[1], Tail(pat), groups, RunEnd(q, pos, pat[1].class))
    ELSE MatchSpCol(q, pos, Tail(pat), groups, RunEnd(q, pos, SpaceClass), RunEnd(q, pos, ColClass))

\* The positions where one of the alternatives pats matches
MatchPositions(q, pats) == {i \in 1..Len(q) : \E k \in DOMAIN pats : Match(q, i, pats[k], <<>>).ok}

SearchAt(q, pats, hits) ==
    IF hits = {} THEN NoMatch
    ELSE Match(q, MinOf(hits), pats[MinOf({k \in DOMAIN pats : Match(q, MinOf(hits), pats[k], <<>>).ok})], <<>>)

\* re.search: the leftmost match, of the first alternative that matches there
Search(q, pats) == SearchAt(q, pats, MatchPositions(q, pats))

(***************************************************************************)
(* difflib.get_close_matches, as the planner uses it (n = 1, no junk)      *)
(***************************************************************************)
FuzzyCutoffTenths == 8

PreferCutoffTenths == 7

BlockAt(a, b, k, i, j) == SubSeq(a, i, i + k - 1) = SubSeq(b, j, j + k - 1)

BlockIn(a, b, k, i) == \E j \in 1..(Len(b) - k + 1) : BlockAt(a, b, k, i, j)

HasBlock(a, b, k) == \E i \in 1..(Len(a) - k + 1) : BlockIn(a, b, k, i)

\* The length of the longest common block
LongestSize(a, b) ==
    CHOOSE n \in 0..Min(Len(a), Len(b)) :
        (n = 0 \/ HasBlock(a, b, n)) /\ (n = Min(Len(a), Len(b)) \/ ~HasBlock(a, b, n + 1))

FirstInB(a, b, k, i) == MinOf({j \in 1..(Len(b) - k + 1) : BlockAt(a, b, k, i, j)})

FirstBlock(a, b, k, i) == [i |-> i, j |-> FirstInB(a, b, k, i), size |-> k]

LongestBlock(a, b, k) ==
    IF k = 0 THEN [i |-> 0, j |-> 0, size |-> 0]
    ELSE FirstBlock(a, b, k, MinOf({i \in 1..(Len(a) - k + 1) : BlockIn(a, b, k, i)}))

\* SequenceMatcher.find_longest_match: the longest common block, the one that
\* starts earliest in a and, among those, earliest in b
find_longest_match(a, b) == LongestBlock(a, b, LongestSize(a, b))

RECURSIVE MatchCount(_, _)
\* The block m and, recursively, the blocks to its left and to its right
BlocksAround(a, b, m) ==
    IF m.size = 0 THEN 0
    ELSE m.size
         + MatchCount(Slice(a, 1, m.i - 1), Slice(b, 1, m.j - 1))
         + MatchCount(Slice(a, m.i + m.size, Len(a)), Slice(b, m.j + m.size, Len(b)))

\* The total size of SequenceMatcher.get_matching_blocks
MatchCount(a, b) == IF a = "" \/ b = "" THEN 0 ELSE BlocksAround(a, b, find_longest_match(a, b))

\* SequenceMatcher.ratio() = 2.0 * matches / length (1.0 when both are empty),
\* kept as the fraction num / den
Ratio(a, b) == IF Len(a) + Len(b) = 0 THEN [num |-> 1, den |-> 1]
               ELSE [num |-> 2 * MatchCount(a, b), den |-> Len(a) + Len(b)]

real_quick_ratio(a, b) == IF Len(a) + Len(b) = 0 THEN [num |-> 1, den |-> 1]
                          ELSE [num |-> 2 * Min(Len(a), Len(b)), den |-> Len(a) + Len(b)]

GeqTenths(r, tenths) == 10 * r.num >= tenths * r.den

\* (score of x, x) < (score of y, y) as Python compares the tuples
ScoredLess(x, rx, y, ry) ==
    \/ rx.num * ry.den < ry.num * rx.den
    \/ (rx.num * ry.den = ry.num * rx.den /\ StrLess(x, y))

\* The best of the possibilities whose score reaches the cutoff
BestMatch(possibilities, scores, tenths) ==
    IF \A i \in DOMAIN possibilities : ~GeqTenths(scores[i], tenths) THEN None
    ELSE Some(possibilities[
            CHOOSE i \in DOMAIN possibilities :
                /\ GeqTenths(scores[i], tenths)
                /\ \A j \in DOMAIN possibilities :
                      GeqTenths(scores[j], tenths)
                          => ~ScoredLess(possibilities[i], scores[i], possibilities[j], scores[j])])

\* get_close_matches(word, possibilities, n=1, cutoff=tenths/10): a possibility
\* is scored when real_quick_ratio reaches the cutoff (quick_ratio is an upper
\* bound of ratio and filters nothing more)
get_close_matches(word, possibilities, tenths) ==
    BestMatch(possibilities,
              [i \in DOMAIN possibilities |->
                  IF GeqTenths(real_quick_ratio(possibilities[i], word), tenths)
                  THEN Ratio(possibilities[i], word)
                  ELSE [num |-> 0, den |-> 1]],
              tenths)

(***************************************************************************)
(* The planner's helpers (src/src/planner.py)                              *)
(***************************************************************************)
ShortLiteralLen == 5

DefaultHeadN == 5

DefaultValueCountsN == 10

ZThreshold == 3

\* r'\b(\d{1,4})\b'
IntPattern == <<WordBoundary, Run(DigitClass, 1, 4, TRUE), WordBoundary>>

\* r'\b(20\d{2})\b'
YearPattern == <<WordBoundary, Lit("20"), Run(DigitClass, 2, 2, TRUE), WordBoundary>>

\* r'(?: by | per )([a-z0-9_ ]+)$'
BySuffixPatterns == << <<Lit(" by "), Run(ColClass, 1, 0, TRUE), EndOfText>>,
                       <<Lit(" per "), Run(ColClass, 1, 0, TRUE), EndOfText>> >>

\* r'by ([a-z0-9_ ]+)'
ByPattern == <<Lit("by "), Run(ColClass, 1, 0, TRUE)>>

\* r'(?:top|largest)\s+(\d+)\s+rows?\s+by\s+([a-z0-9_ ]+)'
TopTail == <<Run(SpaceClass, 1, 0, FALSE), Run(DigitClass, 1, 0, TRUE), Run(SpaceClass, 1, 0, FALSE),
             Lit("row"), OptLit("s"), Run(SpaceClass, 1, 0, FALSE), Lit("by"), SpCol>>

TopPatterns == << <<Lit("top")>> \o TopTail, <<Lit("largest")>> \o TopTail >>

\* r'where\s+([a-z0-9_ ]+)\s*=\s*([a-z0-9_/\-]+)'
WhereEqPattern == <<Lit("where"), SpCol, Lit("="), Run(SpaceClass, 0, 0, FALSE), Run(ValClass, 1, 0, TRUE)>>

\* r'contains\s+([a-z0-9_/\-]+)', the end of the contains pattern
ContainsTail == <<Lit("contains"), Run(SpaceClass, 1, 0, FALSE), Run(ValClass, 1, 0, TRUE)>>

IntFrom(m) == IF m.ok THEN Some(ParseDigits(m.groups[1])) ELSE None

YearFrom(m) == IF m.ok THEN Some(ParseDigits("20" \o m.groups[1])) ELSE None

_extract_int(text) == IntFrom(Search(text, <<IntPattern>>))

_extract_year(text) == YearFrom(Search(text, <<YearPattern>>))

\* The first column whose lower-cased name occurs in the text, else the
\* closest column at similarity >= 0.8
ResolveFrom(text, columns, hits) ==
    IF hits # {} THEN Some(columns[MinOf(hits)])
    ELSE get_close_matches(Strip(text), columns, FuzzyCutoffTenths)

ResolveLower(text, columns) ==
    ResolveFrom(text, columns, {i \in DOMAIN columns : Contains(Lower(columns[i]), text)})

_resolve_col_from_text(qpiece, columns) == ResolveLower(Lower(qpiece), columns)

\* The first candidate that is a column, else the column closest to the first
\* candidate at similarity >= 0.7
FirstPresentFrom(columns, candidates, hits) ==
    IF hits # {} THEN Some(candidates[MinOf(hits)])
    ELSE IF candidates # <<>> THEN get_close_matches(candidates[1], columns, PreferCutoffTenths)
    ELSE None

_first_present(columns, candidates) ==
    FirstPresentFrom(columns, candidates, {i \in DOMAIN candidates : InList(candidates[i], columns)})

\* The group of the " by | per ... $" pattern, else of the "by ..." pattern
ByOrPerFrom(q, columns, m1, m2) ==
    IF m1.ok THEN _resolve_col_from_text(m1.groups[1], columns)
    ELSE IF m2.ok THEN _resolve_col_from_text(m2.groups[1], columns)
    ELSE None

_resolve_col_after_by_or_per(q, columns) ==
    ByOrPerFrom(q, columns, Search(q, BySuffixPatterns), Search(q, <<ByPattern>>))

\* A filter value or a table cell is tagged with its Python type: int, float
\* (kept as its literal), str, null (NaN/None), or a predicate descriptor such
\* as {'contains': text}.
IntV(n) == [k |-> "int", v |-> n]

FloatV(s) == [k |-> "float", v |-> s]

StrV(s) == [k |-> "str", v |-> s]

ContainsV(s) == [k |-> "contains", v |-> s]

\* digits, single underscores allowed between them
IsDigitPart(s) ==
    /\ Ch(s, 1) \in DigitClass
    /\ Ch(s, Len(s)) \in DigitClass
    /\ \A i \in 1..Len(s) : Ch(s, i) \in DigitClass \/ (Ch(s, i) = "_" /\ Ch(s, i + 1) # "_")

Unsigned(s) == IF Ch(s, 1) = "-" THEN Slice(s, 2, Len(s)) ELSE s

RECURSIVE DropUnderscores(_)
DropUnderscores(s) ==
    IF s = "" THEN ""
    ELSE (IF Ch(s, 1) = "_" THEN "" ELSE Ch(s, 1)) \o DropUnderscores(Slice(s, 2, Len(s)))

\* what int(s) accepts, over the characters a filter value can have
IsIntLiteral(s) == IsDigitPart(Unsigned(s))

IntLiteral(s) == IF Ch(s, 1) = "-" THEN 0 - ParseDigits(DropUnderscores(Unsigned(s)))
                 ELSE ParseDigits(DropUnderscores(s))

\* what float(s) accepts and int(s) does not, over the same characters
IsFloatText(u) ==
    \/ u \in {"nan", "inf", "infinity"}
    \/ \E e \in 2..(Len(u) - 1) :
          /\ Ch(u, e) = "e"
          /\ IsDigitPart(Slice(u, 1, e - 1))
          /\ IsDigitPart(Unsigned(Slice(u, e + 1, Len(u))))

IsFloatLiteral(s) == IsFloatText(Unsigned(s))

_coerce_literal(s) ==
    IF IsIntLiteral(s) THEN IntV(IntLiteral(s))
    ELSE IF IsFloatLiteral(s) THEN FloatV(s)
    ELSE StrV(IF Len(s) <= ShortLiteralLen THEN Upper(s) ELSE s)

\* r'where\s+([a-z0-9_ ]+)\s+contains\s+([a-z0-9_/\-]+)' tried at the "where"
\* that ends before p: the column group is greedy, so the last
\* " contains <value>" that leaves it a character ends it; se is the end of the
\* spaces after "where" and ce the end of the run of [a-z0-9_ ].
ContainsStarts(q, se, ce) ==
    {c \in (se + 3)..(ce + 2) : Ch(q, c - 1) = " " /\ Match(q, c, ContainsTail, <<>>).ok}

WhereContainsWith(q, p, se, starts) ==
    IF se < p THEN NoMatch
    ELSE IF starts # {}
         THEN Match(q, MaxOf(starts), ContainsTail, <<Slice(q, se + 1, MaxOf(starts) - 2)>>)
    ELSE IF se >= p + 2
         THEN Match(q, se + 1, ContainsTail, <<" ">>)
    ELSE NoMatch

WhereContainsRuns(q, p, se, ce) == WhereContainsWith(q, p, se, ContainsStarts(q, se, ce))

WhereContainsAt(q, i) ==
    IF At("where", q, i)
    THEN WhereContainsRuns(q, i + 5, RunEnd(q, i + 5, SpaceClass), RunEnd(q, i + 5, ColClass))
    ELSE NoMatch

WhereContainsFirst(q, hits) == IF hits = {} THEN NoMatch ELSE WhereContainsAt(q, MinOf(hits))

SearchWhereContains(q) == WhereContainsFirst(q, {i \in 1..Len(q) : WhereContainsAt(q, i).ok})

\* f[col] = value when the column resolves
FilterEntry(f, col, value) == IF Truthy(col) THEN DictSet(f, col[1], value) ELSE f

\* The equality filter written into a dict that outlives the call: the
\* filters of the plan returned last
EqFilterKept(columns, m) ==
    IF m.ok
    THEN FilterEntry(IF "filters" \in DOMAIN plan THEN plan.filters ELSE EmptyDict,
                     _resolve_col_from_text(m.groups[1], columns), _coerce_literal(Strip(m.groups[2])))
    ELSE IF "filters" \in DOMAIN plan THEN plan.filters ELSE EmptyDict

EqFilter(columns, m) ==
    IF m.ok
    THEN FilterEntry(EmptyDict, _resolve_col_from_text(m.groups[1], columns), _coerce_literal(Strip(m.groups[2])))
    ELSE EmptyDict

ContainsFilter(f, columns, m) ==
    IF m.ok
    THEN FilterEntry(f, _resolve_col_from_text(m.groups[1], columns), ContainsV(Strip(m.groups[2])))
    ELSE f

_extract_filters(q, columns) ==
    ContainsFilter(EqFilter(columns, Search(q, <<WhereEqPattern>>)), columns, SearchWhereContains(q))

(***************************************************************************)
(* plan_from_nl (src/src/planner.py)                                       *)
(***************************************************************************)
ShapeWords == {"how many columns", "number of columns", "columns count", "col count",
               "dataset shape", "shape", "dimensions"}

ColumnsWords == {"list columns", "what are the columns", "show columns", "column names",
                 "headers", "features", "schema"}

DtypesWords == {"dtypes", "data types", "types of columns", "show dtypes"}

DescribeWords == {"describe", "summary stats", "summary statistics", "stats"}

HeadWords == {"head", "first rows", "show first"}

TailWords == {"tail", "last rows", "show last"}

MissingWords == {"missing values", "nulls", "nans", "na values", "na summary"}

DuplicatesWords == {"duplicate rows", "duplicates"}

UniqueWords == {"unique", "distinct"}

ValueCountsWords == {"value counts", "frequency", "distribution", "breakdown"}

RowCountWords == {"how many rows", "count rows", "row count", "number of rows", "rows"}

SumWords == {"sum", "total"}

AverageWords == {"average", "mean", "avg"}

CorrelationWords == {"correlation", "correlate", "relationship", "corr"}

OutlierWords == {"outlier", "anomaly", "weird"}

TrendWords == {"trend", "over time", "by year"}

SumCandidates == <<"scheduled_quantity", "shipments", "volume", "amount", "value">>

AverageCandidates == <<"scheduled_quantity", "shipments", "volume", "delay_hours", "amount", "value">>

CorrelationCandidates == <<"scheduled_quantity", "shipments", "volume", "delay_hours", "rec_del_sign">>

OutlierCandidates == <<"scheduled_quantity", "delay_hours", "volume", "shipments">>

TrendCandidates == <<"scheduled_quantity", "shipments", "volume", "delay_hours">>

\* n or d
OrInt(opt, d) == IF opt # None /\ opt[1] # 0 THEN opt[1] ELSE d

\* a or b, for optional strings
OrElse(a, b) == IF Truthy(a) THEN a ELSE b

\* filters['year'] = year for any year found, whatever the columns
WithYearUnchecked(f, year, columns) == IF year # None THEN DictSet(f, "year", IntV(year[1])) ELSE f

\* filters['year'] = year, if year and 'year' in available_cols
WithYear(f, year, columns) ==
    IF year # None /\ InList("year", columns) THEN DictSet(f, "year", IntV(year[1])) ELSE f

\* [gb] if gb else (['year'] if 'year' in available_cols and ('by year' in q or year) else [])
GroupByList(q, gb, year, columns) ==
    IF Truthy(gb) THEN <<gb[1]>>
    ELSE IF InList("year", columns) /\ (Contains("by year", q) \/ year # None) THEN <<"year">>
    ELSE <<>>

\* {target: op} if target else {}
OpsOf(target, op) == IF Truthy(target) THEN DictSet(EmptyDict, target[1], op) ELSE EmptyDict

CountOps == DictSet(EmptyDict, "*", "count")

DefaultPlan == [type |-> "aggregate", group_by |-> <<>>, ops |-> CountOps, filters |-> EmptyDict]

AggregatePlan(group_by, ops, filters) ==
    [type |-> "aggregate", group_by |-> group_by, ops |-> ops, filters |-> filters]

\* The row-count rule, grp the column after by/per
RowCountPlan(grp, columns, year, filters) ==
    IF Truthy(grp) THEN [type |-> "group_count", group_by |-> <<grp[1]>>]
    ELSE AggregatePlan(<<>>, CountOps, WithYear(filters, year, columns))

RowCountRule(q, columns, year, filters) ==
    RowCountPlan(_resolve_col_after_by_or_per(q, columns), columns, year, filters)

SumRule(q, columns, year, filters) ==
    AggregatePlan(GroupByList(q, _resolve_col_after_by_or_per(q, columns), year, columns),
                  OpsOf(_first_present(columns, SumCandidates), "sum"),
                  WithYear(filters, year, columns))

AverageRule(q, columns, year, filters) ==
    AggregatePlan(GroupByList(q, _resolve_col_after_by_or_per(q, columns), year, columns),
                  OpsOf(OrElse(_resolve_col_from_text(q, columns), _first_present(columns, AverageCandidates)), "mean"),
                  WithYear(filters, year, columns))

CorrelationRule(columns) ==
    [type |-> "correlation",
     cols |-> SelectSeq(CorrelationCandidates, LAMBDA c : InList(c, columns))]

\* The outlier plan without the "if available_cols" guard: available_cols[0]
\* on an empty list is an IndexError
OutlierPlanUnguarded(col, columns) ==
    IF Truthy(col) THEN [type |-> "anomaly:zscore", col |-> col, threshold |-> ZThreshold]
    ELSE IF columns # <<>> THEN [type |-> "anomaly:zscore", col |-> Some(columns[1]), threshold |-> ZThreshold]
    ELSE [type |-> "raise", error |-> "IndexError"]

\* col or (available_cols[0] if available_cols else None)
OutlierPlan(col, columns) ==
    [type |-> "anomaly:zscore",
     col |-> IF Truthy(col) THEN col ELSE IF columns # <<>> THEN Some(columns[1]) ELSE None,
     threshold |-> ZThreshold]

OutlierRule(q, columns) ==
    OutlierPlan(OrElse(_resolve_col_from_text(q, columns), _first_present(columns, OutlierCandidates)), columns)

TrendRule(q, columns) ==
    AggregatePlan(IF InList("year", columns) THEN <<"year">> ELSE <<>>,
                  OpsOf(OrElse(_resolve_col_from_text(q, columns), _first_present(columns, TrendCandidates)), "mean"),
                  EmptyDict)

\* The rules after the top-N rule with the average rule tried before the
\* sum rule
LaterRulesAverageFirst(q, columns, year, filters) ==
    IF AnyIn(AverageWords, q) THEN AverageRule(q, columns, year, filters)
    ELSE IF AnyIn(SumWords, q) THEN SumRule(q, columns, year, filters)
    ELSE IF AnyIn(CorrelationWords, q) THEN CorrelationRule(columns)
    ELSE IF AnyIn(OutlierWords, q) THEN OutlierRule(q, columns)
    ELSE IF AnyIn(TrendWords, q) THEN TrendRule(q, columns)
    ELSE DefaultPlan

\* The rules after the top-N rule (planner.py lines 60-92)
LaterRules(q, columns, year, filters) ==
    IF AnyIn(SumWords, q) THEN SumRule(q, columns, year, filters)
    ELSE IF AnyIn(AverageWords, q) THEN AverageRule(q, columns, year, filters)
    ELSE IF AnyIn(CorrelationWords, q) THEN CorrelationRule(columns)
    ELSE IF AnyIn(OutlierWords, q) THEN OutlierRule(q, columns)
    ELSE IF AnyIn(TrendWords, q) THEN TrendRule(q, columns)
    ELSE DefaultPlan

\* The top-N rule: a sort_top plan when the column resolves, else the later rules
TopPlan(q, columns, year, filters, top_n, by_col) ==
    IF Truthy(by_col)
    THEN [type |-> "sort_top", by |-> <<by_col[1]>>, ascending |-> FALSE, top_n |-> top_n, filters |-> filters]
    ELSE LaterRules(q, columns, year, filters)

TopRule(q, columns, year, filters, m) ==
    IF m.ok
    THEN TopPlan(q, columns, year, filters, ParseDigits(m.groups[1]), _resolve_col_from_text(m.groups[2], columns))
    ELSE LaterRules(q, columns, year, filters)

\* The row-count rule and the rules after it (planner.py lines 39-92)
CountRules(q, columns, year, filters) ==
    IF AnyIn(RowCountWords, q) THEN RowCountRule(q, columns, year, filters)
    ELSE TopRule(q, columns, year, filters, Search(q, TopPatterns))

\* The value-counts rule: a plan when the column resolves, else the later rules
ValueCountsPlan(q, columns, n, year, filters, col) ==
    IF Truthy(col) THEN [type |-> "value_counts", col |-> col[1], n |-> OrInt(n, DefaultValueCountsN)]
    ELSE CountRules(q, columns, year, filters)

ValueCountsRule(q, columns, n, year, filters) ==
    IF AnyIn(ValueCountsWords, q)
    THEN ValueCountsPlan(q, columns, n, year, filters, _resolve_col_from_text(q, columns))
    ELSE CountRules(q, columns, year, filters)

\* The unique-count rule: a plan when the column resolves, else the later rules
UniquePlan(q, columns, n, year, filters, col) ==
    IF Truthy(col) THEN [type |-> "unique_count", col |-> col[1]]
    ELSE ValueCountsRule(q, columns, n, year, filters)

UniqueRule(q, columns, n, year, filters) ==
    IF AnyIn(UniqueWords, q)
    THEN UniquePlan(q, columns, n, year, filters, _resolve_col_from_text(q, columns))
    ELSE ValueCountsRule(q, columns, n, year, filters)

\* The rules in their order, on the normalised question and its signals
Rules(q, columns, n, year, filters) ==
    IF AnyIn(ShapeWords, q) THEN [type |-> "meta:shape"]
    ELSE IF AnyIn(ColumnsWords, q) THEN [type |-> "meta:columns"]
    ELSE IF AnyIn(DtypesWords, q) THEN [type |-> "meta:dtypes"]
    ELSE IF AnyIn(DescribeWords, q) THEN [type |-> "meta:describe"]
    ELSE IF AnyIn(HeadWords, q) THEN [type |-> "meta:head", n |-> OrInt(n, DefaultHeadN)]
    ELSE IF AnyIn(TailWords, q) THEN [type |-> "meta:tail", n |-> OrInt(n, DefaultHeadN)]
    ELSE IF AnyIn(MissingWords, q) THEN [type |-> "meta:missing"]
    ELSE IF AnyIn(DuplicatesWords, q) THEN [type |-> "meta:duplicates"]
    ELSE UniqueRule(q, columns, n, year, filters)

Signals(q, columns) == Rules(q, columns, _extract_int(q), _extract_year(q), _extract_filters(q, columns))

plan_from_nl(qn, available_cols) == Signals(Lower(Strip(qn)), available_cols)

(***************************************************************************)
(* Data frames (pandas.DataFrame as the operations use it).  A frame has   *)
(* an identity (id: two frames with the same id are the same object), its  *)
(* columns in order, a dtype per column and its rows; a row has its index  *)
(* label and a cell per column.  A cell is IntV(n), StrV(s), Null, or, in  *)
(* a result, a statistic kept as the text of its name and its operands.    *)
(*   int64    numbers, no null                                             *)
(*   float64  numbers and nulls (NaN); the numbers of the model are whole  *)
(*   object   texts and nulls (NaN); str(NaN) is 'nan'                     *)
(*   str      texts and nulls; a null stays missing when cast to text      *)
(* A call that raises returns Raise(the exception's name).                 *)
(***************************************************************************)
Null == [k |-> "null", v |-> ""]

IsNull(c) == c.k = "null"

SameCell(a, b) == a.k = b.k /\ a.v = b.v

Raise(e) == [raise |-> e]

IsRaise(x) == "raise" \in DOMAIN x

NumericDtypes == {"int64", "float64"}

DataFrame(columns, dtypes, rows) == [id |-> "new", columns |-> columns, dtypes |-> dtypes, rows |-> rows]

\* pd.DataFrame({c: [v]}) for each column c with its one value
OneRow(columns, dtypes, cells) == DataFrame(columns, dtypes, <<[idx |-> 0, cells |-> cells]>>)

Positions(data) == 1..Len(data.rows)

Cell(data, i, k) == data.rows[i].cells[k]

\* The rows of rows at the positions of keep, in order, from position i on
RECURSIVE Pick(_, _, _)
Pick(rows, keep, i) ==
    IF i > Len(rows) THEN <<>>
    ELSE (IF i \in keep THEN <<rows[i]>> ELSE <<>>) \o Pick(rows, keep, i + 1)

\* data[mask]: a new frame with the rows where the mask is true
Take(data, keep) == [data EXCEPT !.id = "new", !.rows = Pick(data.rows, keep, 1)]

\* df.head(n): the first n rows, all but the last -n for a negative n
head(data, n) ==
    [data EXCEPT !.id = "new",
                 !.rows = SubSeq(data.rows, 1, IF n >= 0 THEN Min(n, Len(data.rows))
                                               ELSE IF Len(data.rows) + n > 0 THEN Len(data.rows) + n ELSE 0)]

\* df.tail(n), n >= 0
tail(data, n) ==
    [data EXCEPT !.id = "new",
                 !.rows = SubSeq(data.rows, Len(data.rows) - Min(n, Len(data.rows)) + 1, Len(data.rows))]

\* df.copy()
copy(data) == [data EXCEPT !.id = "new"]

\* [c for c in xs if c in columns]
RECURSIVE Present(_, _)
Present(xs, columns) ==
    IF xs = <<>> THEN <<>>
    ELSE (IF InList(Head(xs), columns) THEN <<Head(xs)>> ELSE <<>>) \o Present(Tail(xs), columns)

\* df.select_dtypes(include=['number']).columns
NumericColumns(data) == SelectSeq(data.columns, LAMBDA c : data.dtypes[c] \in NumericDtypes)

\* str(n)
StrInt(n) == IF n < 0 THEN "-" \o Str(0 - n) ELSE Str(n)

\* The order of positions of S in which i comes before j when Before(i, j)
SortSet(S, Before(_, _)) ==
    [r \in 1..Cardinality(S) |-> CHOOSE i \in S : Cardinality({j \in S : Before(j, i)}) = r - 1]

RECURSIVE SumSeq(_)
SumSeq(xs) == IF xs = <<>> THEN 0 ELSE Head(xs) + SumSeq(Tail(xs))

\* a < b for two numbers or two texts
CellLess(a, b) == IF a.k = "int" THEN a.v < b.v ELSE StrLess(a.v, b.v)

\* sort order of one key: nulls last, whatever the direction
CellBefore(a, b, ascending) ==
    IF IsNull(a) THEN FALSE
    ELSE IF IsNull(b) THEN TRUE
    ELSE IF ascending THEN CellLess(a, b) ELSE CellLess(b, a)

\* lexicographic order of two key tuples, from key g on
RECURSIVE KeysBefore(_, _, _, _)
KeysBefore(a, b, g, ascending) ==
    IF g > Len(a) THEN FALSE
    ELSE IF SameCell(a[g], b[g]) THEN KeysBefore(a, b, g + 1, ascending)
    ELSE CellBefore(a[g], b[g], ascending)

SameKeys(a, b) == \A g \in 1..Len(a) : SameCell(a[g], b[g])

\* The cells of row i in the columns by
KeyOf(data, i, by) == [g \in 1..Len(by) |-> Cell(data, i, by[g])]

\* A stable sort of the rows on the columns by (ties keep their order, as
\* for the frames of under 16 rows that the model has)
SortedRows(data, by, ascending) ==
    [r \in Positions(data) |->
        data.rows[SortSet(Positions(data),
                          LAMBDA i, j : \/ KeysBefore(KeyOf(data, i, by), KeyOf(data, j, by), 1, ascending)
                                        \/ (SameKeys(KeyOf(data, i, by), KeyOf(data, j, by)) /\ i < j))[r]]]

\* data.sort_values(by=by, ascending=ascending)
sort_values(data, by, ascending) == [data EXCEPT !.id = "new", !.rows = SortedRows(data, by, ascending)]

(***************************************************************************)
(* analysis.py: the filter engine                                          *)
(***************************************************************************)
Between(lo, hi) == [k |-> "between", v |-> <<lo, hi>>]

IsIn(values) == [k |-> "in", v |-> values]

StartsWith(s) == [k |-> "startswith", v |-> s]

EndsWith(s) == [k |-> "endswith", v |-> s]

Gt(x) == [k |-> "gt", v |-> x]

Gte(x) == [k |-> "gte", v |-> x]

Lt(x) == [k |-> "lt", v |-> x]

Lte(x) == [k |-> "lte", v |-> x]

Pow10(n) == IF n = 0 THEN 1 ELSE IF n = 1 THEN 10 ELSE IF n = 2 THEN 100 ELSE IF n = 3 THEN 1000
            ELSE IF n = 4 THEN 10000 ELSE IF n = 5 THEN 100000 ELSE IF n = 6 THEN 1000000
            ELSE IF n = 7 THEN 10000000 ELSE IF n = 8 THEN 100000000 ELSE 1000000000

\* float(m e x) == n, for the digits m, the exponent x and sign -1 or 1
FloatIs(sign, m, x, n) ==
    IF m = 0 THEN n = 0
    ELSE IF x > 9 \/ x < 0 - 9 THEN FALSE
    ELSE IF x >= 0 THEN n % Pow10(x) = 0 /\ sign * (n \div Pow10(x)) = m
    ELSE m % Pow10(0 - x) = 0 /\ sign * (m \div Pow10(0 - x)) = n

\* float(s) == n for the float literal s: digits, "e", exponent
FloatEq(s, n) ==
    IF Unsigned(s) \in {"nan", "inf", "infinity"} THEN FALSE
    ELSE FloatIs(IF Ch(s, 1) = "-" THEN 0 - 1 ELSE 1,
                 ParseDigits(DropUnderscores(Slice(Unsigned(s), 1, IndexIn("e", Unsigned(s)) - 1))),
                 IntLiteral(Slice(Unsigned(s), IndexIn("e", Unsigned(s)) + 1, Len(Unsigned(s)))),
                 n)

\* c == v for the cell c and the literal v
CellEq(c, v) ==
    IF v.k = "float" THEN c.k = "int" /\ FloatEq(v.v, c.v)
    ELSE c.k = v.k /\ c.v = v.v

\* s op v raises TypeError for an ordering op when a text meets a number:
\* a numeric column and a text v, or a text in the column and a number v
\* (v is an int or a text)
CmpRaises(data, k, v) ==
    IF data.dtypes[k] \in NumericDtypes THEN v.k # "int"
    ELSE \E i \in Positions(data) : Cell(data, i, k).k = "str" /\ v.k # "str"

\* s >= v
GeqMask(data, k, v) == {i \in Positions(data) : Cell(data, i, k).k = v.k /\ ~CellLess(Cell(data, i, k), v)}

\* s <= v
LeqMask(data, k, v) == {i \in Positions(data) : Cell(data, i, k).k = v.k /\ ~CellLess(v, Cell(data, i, k))}

\* s > v
GtMask(data, k, v) == {i \in Positions(data) : Cell(data, i, k).k = v.k /\ CellLess(v, Cell(data, i, k))}

\* s < v
LtMask(data, k, v) == {i \in Positions(data) : Cell(data, i, k).k = v.k /\ CellLess(Cell(data, i, k), v)}

\* s == v
EqMask(data, k, v) == {i \in Positions(data) : CellEq(Cell(data, i, k), v)}

\* s.isin(values)
IsInMask(data, k, values) == {i \in Positions(data) : \E j \in 1..Len(values) : CellEq(Cell(data, i, k), values[j])}

\* s.astype(str) at one cell: the text, or None for a value that stays missing
AsText(c, dtype) ==
    IF c.k = "str" THEN Some(c.v)
    ELSE IF c.k = "int" THEN Some(IF dtype = "float64" THEN StrInt(c.v) \o ".0" ELSE StrInt(c.v))
    ELSE IF dtype = "str" THEN None
    ELSE Some("nan")

EndsIn(p, s) == Len(p) <= Len(s) /\ Slice(s, Len(s) - Len(p) + 1, Len(s)) = p

\* s.astype(str).str.contains(p, case=False, na=False), p of letters and digits
ContainsMask(data, k, p) ==
    {i \in Positions(data) :
        /\ AsText(Cell(data, i, k), data.dtypes[k]) # None
        /\ Contains(Lower(p), Lower(AsText(Cell(data, i, k), data.dtypes[k])[1]))}

\* s.astype(str).str.startswith(p, na=False)
StartsWithMask(data, k, p) ==
    {i \in Positions(data) :
        /\ AsText(Cell(data, i, k), data.dtypes[k]) # None
        /\ At(p, AsText(Cell(data, i, k), data.dtypes[k])[1], 1)}

\* s.astype(str).str.endswith(p, na=False)
EndsWithMask(data, k, p) ==
    {i \in Positions(data) :
        /\ AsText(Cell(data, i, k), data.dtypes[k]) # None
        /\ EndsIn(p, AsText(Cell(data, i, k), data.dtypes[k])[1])}

OrderingMask(data, k, v) ==
    IF v.k = "gt" THEN GtMask(data, k, v.v)
    ELSE IF v.k = "gte" THEN GeqMask(data, k, v.v)
    ELSE IF v.k = "lt" THEN LtMask(data, k, v.v)
    ELSE LeqMask(data, k, v.v)

\* One entry k: v of the filters, k a column of data (analysis.py lines 13-31);
\* a descriptor v has one predicate
ApplyEntry(data, k, v) ==
    IF v.k = "between"
    THEN IF CmpRaises(data, k, v.v[1]) \/ CmpRaises(data, k, v.v[2]) THEN Raise("TypeError")
         ELSE Take(data, GeqMask(data, k, v.v[1]) \cap LeqMask(data, k, v.v[2]))
    ELSE IF v.k = "in" THEN Take(data, IsInMask(data, k, v.v))
    ELSE IF v.k = "contains" THEN Take(data, ContainsMask(data, k, v.v))
    ELSE IF v.k = "startswith" THEN Take(data, StartsWithMask(data, k, v.v))
    ELSE IF v.k = "endswith" THEN Take(data, EndsWithMask(data, k, v.v))
    ELSE IF v.k \in {"gt", "gte", "lt", "lte"}
    THEN IF CmpRaises(data, k, v.v) THEN Raise("TypeError") ELSE Take(data, OrderingMask(data, k, v))
    ELSE Take(data, EqMask(data, k, v))

\* The entry k: v raising KeyError for a column that data lacks
FilterStepStrict(data, k, v) ==
    IF ~InList(k, data.columns) THEN Raise("KeyError") ELSE ApplyEntry(data, k, v)

\* if k not in data.columns: continue
FilterStep(data, k, v) ==
    IF ~InList(k, data.columns) THEN data ELSE ApplyEntry(data, k, v)

\* for k, v in filters.items(), from item i on
RECURSIVE FilterLoop(_, _, _)
FilterLoop(data, filters, i) ==
    IF i > Len(filters) \/ IsRaise(data) THEN data
    ELSE FilterLoop(FilterStep(data, filters[i].key, filters[i].value), filters, i + 1)

\* apply_filters with "data = df" for "data = df.copy()"
apply_filters_no_copy(data, filters) ==
    IF filters = <<>> THEN data ELSE FilterLoop(data, filters, 1)

apply_filters(data, filters) ==
    IF filters = <<>> THEN copy(data) ELSE FilterLoop(copy(data), filters, 1)

(***************************************************************************)
(* analysis.py: the analytical operations.  A statistic whose value no     *)
(* property here depends on is kept as its name and operands.              *)
(***************************************************************************)
AggOps == {"count", "sum", "mean", "min", "max", "median", "std"}

Stat(name, operands) == [k |-> name, v |-> operands]

\* The rows with a value in column c
NonNull(rows, c) == SelectSeq(rows, LAMBDA r : ~IsNull(r.cells[c]))

\* The values of column c in rows, none of them null
Values(rows, c) == [i \in 1..Len(rows) |-> rows[i].cells[c].v]

RECURSIVE Concat(_)
Concat(xs) == IF xs = <<>> THEN "" ELSE Head(xs) \o Concat(Tail(xs))

Least(xs, Less(_, _)) == xs[CHOOSE i \in 1..Len(xs) : \A j \in 1..Len(xs) : ~Less(xs[j], xs[i])]

\* One aggregate of a numeric column with the values xs
NumberAgg(op, xs) ==
    IF op = "count" THEN IntV(Len(xs))
    ELSE IF op = "sum" THEN IntV(SumSeq(xs))
    ELSE IF xs = <<>> THEN Null
    ELSE IF op = "min" THEN IntV(Least(xs, LAMBDA a, b : a < b))
    ELSE IF op = "max" THEN IntV(Least(xs, LAMBDA a, b : a > b))
    ELSE IF op = "mean" THEN Stat("mean", <<SumSeq(xs), Len(xs)>>)
    ELSE Stat(op, xs)

\* One aggregate of a text column with the texts xs, nulls the number of
\* nulls: a text has no mean, and a text and a null neither add nor compare
TextAgg(op, xs, nulls) ==
    IF op = "count" THEN IntV(Len(xs))
    ELSE IF op \in {"mean", "median", "std"} THEN Raise("TypeError")
    ELSE IF nulls > 0 /\ xs # <<>> THEN Raise("TypeError")
    ELSE IF xs = <<>> THEN (IF op = "sum" THEN IntV(0) ELSE Null)
    ELSE IF op = "sum" THEN StrV(Concat(xs))
    ELSE IF op = "min" THEN StrV(Least(xs, StrLess))
    ELSE StrV(Least(xs, LAMBDA a, b : StrLess(b, a)))

\* The aggregate op of column c over rows
AggCell(rows, dtype, c, op) ==
    IF dtype \in NumericDtypes THEN NumberAgg(op, Values(NonNull(rows, c), c))
    ELSE TextAgg(op, Values(NonNull(rows, c), c), Len(rows) - Len(NonNull(rows, c)))

\* {c: o for c, o in ops.items() if c != '*' and o in [...]}
AggMap(ops) == SelectSeq(ops, LAMBDA it : it.key # "*" /\ it.value \in AggOps)

\* ops.get('*') == 'count'
HasCount(ops) == \E i \in 1..Len(ops) : ops[i].key = "*" /\ ops[i].value = "count"

Keys(d) == [i \in 1..Len(d) |-> d[i].key]

\* The first error among the cells of a row, if any
CellError(cells, columns) ==
    IF \E i \in 1..Len(columns) : IsRaise(cells[columns[i]])
    THEN cells[columns[MinOf({i \in 1..Len(columns) : IsRaise(cells[columns[i]])})]]
    ELSE Null

\* The dtype of an aggregate: the aggregates of the model keep no dtype apart
AggDtypes(columns) == [c \in Range(columns) |-> "object"]

\* The aggregates of agg_map over rows, by column
AggCells(data, rows, agg_map) ==
    [c \in Range(Keys(agg_map)) |->
        AggCell(rows, data.dtypes[c], c, agg_map[MaxOf({i \in 1..Len(agg_map) : agg_map[i].key = c})].value)]

\* data.agg(agg_map).to_frame().T, and row_count in front for a '*' count
UngroupedWith(data, agg_map, count, cells) ==
    IF IsRaise(CellError(cells, Keys(agg_map))) THEN CellError(cells, Keys(agg_map))
    ELSE IF count
    THEN OneRow(<<"row_count">> \o Keys(agg_map), AggDtypes(<<"row_count">> \o Keys(agg_map)),
                [c \in {"row_count"} \cup DOMAIN cells |-> IF c = "row_count" THEN IntV(Len(data.rows)) ELSE cells[c]])
    ELSE OneRow(Keys(agg_map), AggDtypes(Keys(agg_map)), cells)

Ungrouped(data, agg_map, count) ==
    IF agg_map = <<>> THEN Raise("ValueError")
    ELSE IF \E i \in 1..Len(agg_map) : ~InList(agg_map[i].key, data.columns) THEN Raise("KeyError")
    ELSE UngroupedWith(data, agg_map, count, AggCells(data, data.rows, agg_map))

\* The first row of each group of the columns by, a null key being a group
GroupFirsts(data, by) ==
    {i \in Positions(data) : \A j \in 1..(i - 1) : ~SameKeys(KeyOf(data, j, by), KeyOf(data, i, by))}

\* The groups in the order of their keys, each by its first row
GroupOrder(data, by) ==
    SortSet(GroupFirsts(data, by), LAMBDA i, j : KeysBefore(KeyOf(data, i, by), KeyOf(data, j, by), 1, TRUE))

\* The rows of the group of row i
Members(data, by, i) ==
    Pick(data.rows, {j \in Positions(data) : SameKeys(KeyOf(data, j, by), KeyOf(data, i, by))}, 1)

\* data.groupby(by, dropna=False).size().reset_index(name='row_count')
GroupSizes(data, by, order) ==
    DataFrame(by \o <<"row_count">>,
              [c \in Range(by) \cup {"row_count"} |-> IF c = "row_count" THEN "int64" ELSE data.dtypes[c]],
              [r \in 1..Len(order) |->
                  [idx |-> r - 1,
                   cells |-> [c \in Range(by) \cup {"row_count"} |->
                                IF c = "row_count" THEN IntV(Len(Members(data, by, order[r])))
                                ELSE Cell(data, order[r], c)]]])

\* One row of the grouped aggregate: the key, the size if asked, the aggregates
GroupRow(data, by, i, count, cells) ==
    [c \in Range(by) \cup (IF count THEN {"row_count"} ELSE {}) \cup DOMAIN cells |->
        IF c \in DOMAIN cells THEN cells[c]
        ELSE IF c \in Range(by) THEN Cell(data, i, c)
        ELSE IntV(Len(Members(data, by, i)))]

GroupedColumns(by, agg_map, count) == by \o (IF count THEN <<"row_count">> ELSE <<>>) \o Keys(agg_map)

GroupedWith(data, by, agg_map, count, order, cells) ==
    IF \E r \in 1..Len(order) : IsRaise(CellError(cells[r], Keys(agg_map)))
    THEN CellError(cells[MinOf({r \in 1..Len(order) : IsRaise(CellError(cells[r], Keys(agg_map)))})], Keys(agg_map))
    ELSE IF \E i \in 1..Len(agg_map) : InList(agg_map[i].key, by) THEN Raise("ValueError")
    ELSE DataFrame(GroupedColumns(by, agg_map, count), AggDtypes(GroupedColumns(by, agg_map, count)),
                   [r \in 1..Len(order) |-> [idx |-> r - 1, cells |-> GroupRow(data, by, order[r], count, cells[r])]])

GroupedOrder(data, by, agg_map, count, order) ==
    GroupedWith(data, by, agg_map, count, order,
                [r \in 1..Len(order) |-> AggCells(data, Members(data, by, order[r]), agg_map)])

\* data.groupby(group_by, dropna=False).agg(agg_map).reset_index(), merged on
\* the sizes for a '*' count; reset_index cannot insert a key column that
\* is an aggregate's column too
Grouped(data, by, agg_map, count) ==
    IF \E g \in 1..Len(by) : ~InList(by[g], data.columns) THEN Raise("KeyError")
    ELSE IF agg_map = <<>> THEN Raise("ValueError")
    ELSE IF \E i \in 1..Len(agg_map) : ~InList(agg_map[i].key, data.columns) THEN Raise("KeyError")
    ELSE GroupedOrder(data, by, agg_map, count, GroupOrder(data, by))

\* aggregate after its first line
AggregateData(data, group_by, ops) ==
    IF IsRaise(data) THEN data
    ELSE IF ops = <<>> THEN data
    ELSE IF group_by # <<>> THEN Grouped(data, group_by, AggMap(ops), HasCount(ops))
    ELSE Ungrouped(data, AggMap(ops), HasCount(ops))

aggregate(data, group_by, ops, filters) == AggregateData(apply_filters(data, filters), group_by, ops)

\* num.corr(): one row and one column per column of columns
CorrFrame(columns) ==
    DataFrame(columns, [c \in Range(columns) |-> "float64"],
              [r \in 1..Len(columns) |->
                  [idx |-> columns[r], cells |-> [c \in Range(columns) |-> Stat("corr", <<columns[r], c>>)]]])

correlations(data, columns) ==
    IF Present(columns, NumericColumns(data)) # <<>> THEN CorrFrame(Present(columns, NumericColumns(data)))
    ELSE CorrFrame(NumericColumns(data))

\* 1 / 1e-9
EpsInverse == 1000000000

\* float(x) of a cell fails for a text that is no number
FloatFails(c) == c.k = "str" /\ ~IsIntLiteral(c.v)

\* float(x) of a cell with a value
FloatOf(c) == IF c.k = "int" THEN c.v ELSE IntLiteral(c.v)

\* |z| >= t for the row with |n * x - sum| = a, where the squares of
\* n * x - sum of the n values add up to q, and t a whole number.  With
\* e = 1 / 1e-9, mean = sum / n and std = sqrt(q / n^3):
\*     |x - mean| / (std + 1/e) >= t
\* <=> a * e - t * n >= t * e * sqrt(q / n)
\* <=> t <= 0, or a * e >= t * n and e * (e * (a*a*n - t*t*q) - 2*a*t*n*n) + t*t*n*n*n >= 0
ZAtLeast(a, n, q, t) ==
    IF t <= 0 THEN TRUE
    ELSE IF a * a * n - t * t * q <= 0 THEN FALSE
    ELSE /\ a >= (t * n + EpsInverse - 1) \div EpsInverse
         /\ \/ a * a * n - t * t * q >= (2 * a * t * n * n + EpsInverse - 1) \div EpsInverse
            \/ EpsInverse * (EpsInverse * (a * a * n - t * t * q) - 2 * a * t * n * n) + t * t * n * n * n >= 0

\* |z| > t, as above: z is 0 for a = 0, and |z| is t for no t > 0 (1e-9 is
\* no root of the equation)
ZAbove(a, n, q, t) ==
    IF t < 0 THEN TRUE
    ELSE IF t = 0 THEN a > 0
    ELSE ZAtLeast(a, n, q, t)

Abs(x) == IF x < 0 THEN 0 - x ELSE x

\* n * x - sum for each of the n values xs
Deviations(xs, n, sum) == [i \in 1..Len(xs) |-> n * xs[i] - sum]

Squares(xs) == [i \in 1..Len(xs) |-> xs[i] * xs[i]]

\* The rows with np.abs(z) > threshold
ZRowsStrict(data, col, threshold, n, sum, q) ==
    Take(data, {i \in Positions(data) :
                  /\ ~IsNull(Cell(data, i, col))
                  /\ ZAbove(Abs(n * FloatOf(Cell(data, i, col)) - sum), n, q, threshold)})

\* df[np.abs(z) >= threshold], the column having n values with the sum sum
\* and the squares of n * x - sum adding up to q
ZRows(data, col, threshold, n, sum, q) ==
    Take(data, {i \in Positions(data) :
                  /\ ~IsNull(Cell(data, i, col))
                  /\ ZAtLeast(Abs(n * FloatOf(Cell(data, i, col)) - sum), n, q, threshold)})

ZOver(data, col, threshold, xs) ==
    ZRows(data, col, threshold, Len(xs), SumSeq(xs), SumSeq(Squares(Deviations(xs, Len(xs), SumSeq(xs)))))

zscore_outliers(data, col, threshold) ==
    IF ~InList(col, data.columns) THEN Raise("KeyError")
    ELSE IF \E i \in Positions(data) : FloatFails(Cell(data, i, col)) THEN Raise("ValueError")
    ELSE ZOver(data, col, threshold,
               [j \in 1..Len(NonNull(data.rows, col)) |-> FloatOf(NonNull(data.rows, col)[j].cells[col])])

\* The rows of df[use].select_dtypes(include=['number']).dropna()
ForestRows(data, use) ==
    {i \in Positions(data) : \A g \in 1..Len(use) : ~IsNull(Cell(data, i, use[g]))}

\* iforest_outliers; flagged the rows clf.fit_predict(X) answers -1 for
iforest_outliers(data, columns, flagged) ==
    IF Present(Present(columns, data.columns), NumericColumns(data)) = <<>>
       \/ ForestRows(data, Present(Present(columns, data.columns), NumericColumns(data))) = {}
    THEN Take(data, {})
    ELSE Take(data, flagged \cap ForestRows(data, Present(Present(columns, data.columns), NumericColumns(data))))

\* sort_top after its first line
SortTopData(data, by, top_n, ascending) ==
    IF IsRaise(data) THEN data
    ELSE IF Present(by, data.columns) = <<>> THEN head(data, top_n)
    ELSE head(sort_values(data, Present(by, data.columns), ascending), top_n)

sort_top(data, by, top_n, ascending, filters) == SortTopData(apply_filters(data, filters), by, top_n, ascending)

meta_shape(data) ==
    OneRow(<<"rows", "columns">>, [c \in {"rows", "columns"} |-> "int64"],
           [c \in {"rows", "columns"} |-> IF c = "rows" THEN IntV(Len(data.rows)) ELSE IntV(Len(data.columns))])

meta_columns(data) ==
    DataFrame(<<"column", "dtype">>, [c \in {"column", "dtype"} |-> "object"],
              [r \in 1..Len(data.columns) |->
                  [idx |-> r - 1,
                   cells |-> [c \in {"column", "dtype"} |->
                                IF c = "column" THEN StrV(data.columns[r]) ELSE StrV(data.dtypes[data.columns[r]])]]])

meta_dtypes(data) == meta_columns(data)

meta_head(data, n) == head(data, n)

meta_tail(data, n) == tail(data, n)

DescribeStats == <<"count", "mean", "std", "min", "25%", "50%", "75%", "max">>

\* num.describe().T.reset_index().rename(columns={'index':'column'})
DescribeFrame(data, num) ==
    DataFrame(<<"column">> \o DescribeStats, [c \in {"column"} \cup Range(DescribeStats) |-> IF c = "column" THEN "object" ELSE "float64"],
              [r \in 1..Len(num) |->
                  [idx |-> r - 1,
                   cells |-> [c \in {"column"} \cup Range(DescribeStats) |->
                                IF c = "column" THEN StrV(num[r])
                                ELSE IF c = "count" THEN IntV(Len(NonNull(data.rows, num[r])))
                                ELSE Stat(c, Values(NonNull(data.rows, num[r]), num[r]))]]])

\* num.empty: no numeric column or no row
meta_describe(data) ==
    IF NumericColumns(data) = <<>> \/ data.rows = <<>>
    THEN OneRow(<<"note">>, [c \in {"note"} |-> "object"], [c \in {"note"} |-> StrV("No numeric columns to describe.")])
    ELSE DescribeFrame(data, NumericColumns(data))

\* The number of different values of column c in rows, none of them null
Distinct(rows, c) ==
    Cardinality({i \in 1..Len(rows) : \A j \in 1..(i - 1) : ~SameCell(rows[j].cells[c], rows[i].cells[c])})

unique_count(data, col) ==
    IF ~InList(col, data.columns) THEN Raise("KeyError")
    ELSE OneRow(<<"column", "unique_count">>, [c \in {"column", "unique_count"} |-> IF c = "column" THEN "object" ELSE "int64"],
                [c \in {"column", "unique_count"} |->
                    IF c = "column" THEN StrV(col) ELSE IntV(Distinct(NonNull(data.rows, col), col))])

\* The values of col by falling count, a value met earlier first among equals
CountOrder(data, col) ==
    SortSet(GroupFirsts(data, <<col>>),
            LAMBDA i, j : \/ Len(Members(data, <<col>>, i)) > Len(Members(data, <<col>>, j))
                          \/ (Len(Members(data, <<col>>, i)) = Len(Members(data, <<col>>, j)) /\ i < j))

\* vc.columns = [col, 'count']
CountsFrame(data, col, order) ==
    DataFrame(<<col, "count">>, [c \in {col, "count"} |-> IF c = "count" THEN "int64" ELSE data.dtypes[col]],
              [r \in 1..Len(order) |->
                  [idx |-> r - 1,
                   cells |-> [c \in {col, "count"} |->
                                IF c = "count" THEN IntV(Len(Members(data, <<col>>, order[r])))
                                ELSE Cell(data, order[r], col)]]])

value_counts(data, col, n) ==
    IF ~InList(col, data.columns) THEN Raise("KeyError")
    ELSE head(CountsFrame(data, col, CountOrder(data, col)), n)

Missing(data, c) == Len(data.rows) - Len(NonNull(data.rows, c))

\* The columns by falling number of nulls, an earlier column first among equals
MissingOrder(data) ==
    SortSet(1..Len(data.columns),
            LAMBDA i, j : \/ Missing(data, data.columns[i]) > Missing(data, data.columns[j])
                          \/ (Missing(data, data.columns[i]) = Missing(data, data.columns[j]) /\ i < j))

MissingFrame(data, order) ==
    DataFrame(<<"column", "missing", "missing_pct">>,
              [c \in {"column", "missing", "missing_pct"} |-> IF c = "column" THEN "object" ELSE IF c = "missing" THEN "int64" ELSE "float64"],
              [r \in 1..Len(order) |->
                  [idx |-> r - 1,
                   cells |-> [c \in {"column", "missing", "missing_pct"} |->
                                IF c = "column" THEN StrV(data.columns[order[r]])
                                ELSE IF c = "missing" THEN IntV(Missing(data, data.columns[order[r]]))
                                ELSE Stat("pct", <<Missing(data, data.columns[order[r]]), Len(data.rows)>>)]]])

missing_summary(data) == MissingFrame(data, MissingOrder(data))

\* int(df.duplicated().sum()): the rows equal to an earlier row
duplicates_count(data) ==
    OneRow(<<"duplicate_rows">>, [c \in {"duplicate_rows"} |-> "int64"],
           [c \in {"duplicate_rows"} |->
               IntV(Cardinality(Positions(data) \ GroupFirsts(data, data.columns)))])

\* The rows with no null among their cells in the columns by
NoNullKeys(data, by) == Take(data, {i \in Positions(data) : \A g \in 1..Len(by) : ~IsNull(Cell(data, i, by[g]))})

\* group_count with groupby's own default, dropna=True
group_count_dropna(data, group_by) ==
    IF Present(group_by, data.columns) = <<>>
    THEN OneRow(<<"row_count">>, [c \in {"row_count"} |-> "int64"], [c \in {"row_count"} |-> IntV(Len(data.rows))])
    ELSE GroupSizes(NoNullKeys(data, Present(group_by, data.columns)), Present(group_by, data.columns),
                    GroupOrder(NoNullKeys(data, Present(group_by, data.columns)), Present(group_by, data.columns)))

group_count(data, group_by) ==
    IF Present(group_by, data.columns) = <<>>
    THEN OneRow(<<"row_count">>, [c \in {"row_count"} |-> "int64"], [c \in {"row_count"} |-> IntV(Len(data.rows))])
    ELSE GroupSizes(data, Present(group_by, data.columns), GroupOrder(data, Present(group_by, data.columns)))

(***************************************************************************)
(* agent.py: the plan executor.  execute_plan returns the pair of the      *)
(* result and the method note, [result, note], or Raise(e).                *)
(***************************************************************************)
\* plan.get(field, default)
Get(p, field, default) == IF field \in DOMAIN p THEN p[field] ELSE default

Return(frame, note) == IF IsRaise(frame) THEN frame ELSE [result |-> frame, note |-> note]

\* ', '.join(xs)
RECURSIVE Join(_)
Join(xs) == IF xs = <<>> THEN ""
            ELSE IF Len(xs) = 1 THEN xs[1]
            ELSE xs[1] \o ", " \o Join(Tail(xs))

\* str(xs) of a list of texts
ListRepr(xs) == "[" \o Join([i \in 1..Len(xs) |-> "'" \o xs[i] \o "'"]) \o "]"

PreviewRows == 10

DefaultTopN == 10

ForestCols == 4

CountOnly == <<[key |-> "*", value |-> "count"]>>

\* The default preview without its cut at ten rows
DefaultPreviewAll(data) == Return(copy(data), "Default preview")

\* return df.head(10), 'Default preview'
DefaultPreview(data) == Return(head(data, PreviewRows), "Default preview")

\* One entry k: v of the filters of the inline row count (agent.py lines
\* 61-66): a range, or else data[k] == v, which no cell equals when v is a
\* descriptor
CountEntry(data, k, v) ==
    IF v.k = "between"
    THEN IF CmpRaises(data, k, v.v[1]) \/ CmpRaises(data, k, v.v[2]) THEN Raise("TypeError")
         ELSE Take(data, GeqMask(data, k, v.v[1]) \cap LeqMask(data, k, v.v[2]))
    ELSE IF v.k \in {"int", "str", "float"} THEN Take(data, EqMask(data, k, v))
    ELSE Take(data, {})

\* for k, v in filters.items(), from item i on (agent.py lines 60-66)
RECURSIVE CountLoop(_, _, _)
CountLoop(data, filters, i) ==
    IF i > Len(filters) \/ IsRaise(data) THEN data
    ELSE IF ~InList(filters[i].key, data.columns) THEN CountLoop(data, filters, i + 1)
    ELSE CountLoop(CountEntry(data, filters[i].key, filters[i].value), filters, i + 1)

RowCountFrame(data) ==
    IF IsRaise(data) THEN data
    ELSE OneRow(<<"row_count">>, [c \in {"row_count"} |-> "int64"], [c \in {"row_count"} |-> IntV(Len(data.rows))])

\* The aggregate branch (agent.py lines 48-70)
ExecuteAggregate(data, ops, filters, group_by) ==
    IF ops = CountOnly /\ group_by # <<>>
    THEN Return(group_count(data, group_by), "Row counts by " \o Join(group_by))
    ELSE IF ops = CountOnly
    THEN Return(RowCountFrame(CountLoop(copy(data), filters, 1)), "Row count with optional filters")
    ELSE Return(aggregate(data, group_by, ops, filters), "Aggregate with group_by/filters")

\* The z-score branch once the column is settled (agent.py line 91)
ExecuteZscoreOn(data, col, thr) ==
    Return(zscore_outliers(data, col, thr),
           "Z-score outliers on " \o col \o " (|z| >= " \o StrInt(thr) \o ".0)")

\* The z-score branch (agent.py lines 87-91)
ExecuteZscore(data, col, thr) ==
    IF col = None \/ ~InList(col[1], data.columns)
    THEN IF NumericColumns(data) = <<>> THEN Raise("IndexError")
         ELSE ExecuteZscoreOn(data, NumericColumns(data)[1], thr)
    ELSE ExecuteZscoreOn(data, col[1], thr)

\* The isolation-forest branch (agent.py lines 94-96)
ExecuteForest(data, columns, contamination, flagged) ==
    Return(iforest_outliers(data, columns, flagged),
           "IsolationForest anomalies on " \o ListRepr(columns) \o " (contamination=" \o contamination \o ")")

\* The branches after the meta ones (agent.py lines 41-99)
ExecuteOther(data, p, t, flagged) ==
    IF t = "unique_count"
    THEN IF "col" \notin DOMAIN p THEN Raise("KeyError")
         ELSE Return(unique_count(data, p.col), "Unique count of " \o p.col)
    ELSE IF t = "value_counts"
    THEN IF "col" \notin DOMAIN p THEN Raise("KeyError")
         ELSE Return(value_counts(data, p.col, Get(p, "n", DefaultValueCountsN)),
                     "Value counts for " \o p.col \o " (top " \o StrInt(Get(p, "n", DefaultValueCountsN)) \o ")")
    ELSE IF t = "group_count"
    THEN Return(group_count(data, Get(p, "group_by", <<>>)), "Row counts by " \o Join(Get(p, "group_by", <<>>)))
    ELSE IF t = "aggregate"
    THEN ExecuteAggregate(data, Get(p, "ops", <<>>), Get(p, "filters", <<>>), Get(p, "group_by", <<>>))
    ELSE IF t = "correlation"
    THEN Return(correlations(data, Get(p, "cols", <<>>)), "Pairwise Pearson correlations")
    ELSE IF t = "sort_top"
    THEN Return(sort_top(data, Get(p, "by", <<>>), Get(p, "top_n", DefaultTopN), Get(p, "ascending", FALSE), Get(p, "filters", <<>>)),
                "Sorted by " \o ListRepr(Get(p, "by", <<>>)) \o " (ascending="
                    \o (IF Get(p, "ascending", FALSE) THEN "True" ELSE "False") \o ") top " \o StrInt(Get(p, "top_n", DefaultTopN)))
    ELSE IF At("anomaly:zscore", t, 1)
    THEN ExecuteZscore(data, Get(p, "col", None), Get(p, "threshold", ZThreshold))
    ELSE IF t = "anomaly:iforest"
    THEN ExecuteForest(data,
                       IF Get(p, "cols", <<>>) # <<>> THEN p.cols
                       ELSE SubSeq(NumericColumns(data), 1, Min(ForestCols, Len(NumericColumns(data)))),
                       Get(p, "contamination", "0.01"), flagged)
    ELSE DefaultPreview(data)

\* execute_plan once t = plan.get('type', '') is known
ExecuteType(data, p, t, flagged) ==
    IF t = "meta:shape" THEN Return(meta_shape(data), "Dataset shape")
    ELSE IF t = "meta:columns" THEN Return(meta_columns(data), "Columns and dtypes")
    ELSE IF t = "meta:dtypes" THEN Return(meta_dtypes(data), "Data types")
    ELSE IF t = "meta:describe" THEN Return(meta_describe(data), "Numeric summary statistics")
    ELSE IF t = "meta:head"
    THEN Return(meta_head(data, Get(p, "n", DefaultHeadN)), "Head (first " \o StrInt(Get(p, "n", DefaultHeadN)) \o " rows)")
    ELSE IF t = "meta:tail"
    THEN Return(meta_tail(data, Get(p, "n", DefaultHeadN)), "Tail (last " \o StrInt(Get(p, "n", DefaultHeadN)) \o " rows)")
    ELSE IF t = "meta:missing" THEN Return(missing_summary(data), "Missing values by column")
    ELSE IF t = "meta:duplicates" THEN Return(duplicates_count(data), "Duplicate rows count")
    ELSE ExecuteOther(data, p, t, flagged)

\* execute_plan(df, plan); flagged the rows the isolation forest, if the plan
\* fits one, answers -1 for
execute_plan(data, p, flagged) == ExecuteType(data, p, Get(p, "type", ""), flagged)

(***************************************************************************)
(* answer.py and insights.py                                               *)
(***************************************************************************)
\* format_answer: the text's parts
format_answer(res, p, method_note) ==
    [answer |-> "returned " \o StrInt(Len(res.rows)) \o " rows x " \o StrInt(Len(res.columns)) \o " columns.",
     plan |-> p,
     method |-> method_note,
     preview |-> head(res, PreviewRows).rows]

InsightTypes == {"aggregate", "correlation", "anomaly", "group_count", "sort_top"}

\* generate_insights without its test of the plan's type
generate_insights_any_type(p, reply) == reply

\* generate_insights; reply what the text-generation providers answer:
\* "none" without a key, "text", or "error" for an exception
generate_insights(p, reply) ==
    IF ~\E x \in InsightTypes : At(x, Get(p, "type", ""), 1) THEN "none" ELSE reply

(***************************************************************************)
(* The planner called on bounded inputs                                    *)
(***************************************************************************)
MaxTopN == 3

MaxCols == 2

ColNames == {"delay_hours", "region", "volume", "year"}

\* Every list of at most MaxCols distinct column names
ColLists == UNION {{c \in [1..n -> ColNames] : \A i, j \in 1..n : i # j => c[i] # c[j]} : n \in 0..MaxCols}

WhereSuffixes == {" where region = tx", " where region contains east", " in 2024"}

\* "top N rows by c"
TopQuestions ==
    {[q |-> "top " \o Str(n) \o " rows by " \o c, kind |-> "top", n |-> n, x |-> c, y |-> ""] :
        n \in 1..MaxTopN, c \in ColNames}

TopWhereQuestions ==
    {[q |-> "largest " \o Str(MaxTopN) \o " row by volume" \o w, kind |-> "topw", n |-> MaxTopN, x |-> "volume", y |-> w] :
        w \in WhereSuffixes}

\* "average X by Y"
AverageQuestions ==
    {[q |-> "average " \o xy[1] \o " by " \o xy[2], kind |-> "avg", n |-> 0, x |-> xy[1], y |-> xy[2]] :
        xy \in {p \in ColNames \X ColNames : p[1] # p[2]}}

\* Questions with none of the rule phrasings
PlainTexts == {"", "   ", "hello", "HELLO there", "show me the data", "12", "where region = tx",
               "top 5 by volume", "largest volume"}

PlainQuestions == {[q |-> t, kind |-> "plain", n |-> 0, x |-> "", y |-> ""] : t \in PlainTexts}

\* One or more questions for each rule
RuleTexts == {"dataset shape", "list columns", "show dtypes", "describe", "head 3", "show last 0",
              "missing values", "duplicates", "unique region", "distinct things",
              "value counts of region", "how many rows", "count rows by region",
              "how many rows in 2024", "how many rows where region contains east",
              "total volume per region", "sum in 2024", "Average Volume ", "mean delay",
              "correlation", "outlier in volume", "anything weird", "trend over time",
              "top 2 rows by volum", "stop 2 row by volume where volume = 5"}

RuleQuestions == {[q |-> t, kind |-> "rule", n |-> 0, x |-> "", y |-> ""] : t \in RuleTexts}

\* Questions with the phrasings of several rules
OverlapTexts == {"describe the shape", "show columns dtypes stats", "head and tail 2", "tail of nulls",
                 "missing duplicates", "duplicates of distinct region", "unique value counts of region",
                 "distinct things total", "frequency of nothing mean", "breakdown of rows by region",
                 "sum of rows", "largest 2 row by volume total", "largest 2 row by nothing total",
                 "total average volume", "mean correlation", "corr outlier", "weird trend by year",
                 "average by year", "trend"}

OverlapQuestions == {[q |-> t, kind |-> "overlap", n |-> 0, x |-> "", y |-> ""] : t \in OverlapTexts}

Questions ==
    TopQuestions \cup TopWhereQuestions \cup AverageQuestions \cup PlainQuestions \cup RuleQuestions \cup OverlapQuestions

NoArg == [kind |-> "", n |-> 0, x |-> "", y |-> ""]

NoPlan == [type |-> "none"]

NoTable == <<>>

NoResult == <<>>

NoOutput == <<>>

PlanInit ==
    /\ pc = "call"
    /\ \E i \in Questions : question = i.q /\ arg = [kind |-> i.kind, n |-> i.n, x |-> i.x, y |-> i.y]
    /\ cols \in ColLists
    /\ plan = NoPlan
    /\ df = NoTable
    /\ loaded = NoTable
    /\ result = NoResult
    /\ out = NoOutput

\* plan = plan_from_nl(question, cols)
CallPlanFromNl ==
    /\ pc = "call"
    /\ plan' = plan_from_nl(question, cols)
    /\ pc' = "ret"
    /\ UNCHANGED <<question, cols, df, loaded, arg, result, out>>

PlanNext == CallPlanFromNl

PlanSpec == PlanInit /\ [][PlanNext]_vars

(***************************************************************************)
(* The planner called again and again by one caller; out is the log of the *)
(* calls made: the question, the column list passed and the plan returned  *)
(***************************************************************************)
MaxCalls == 3

RepeatQuestions == {"how many rows", "how many rows where region = tx", "sum in 2024", "average volume by region"}

RepeatCols == {<<>>, <<"region", "volume">>, <<"volume", "year">>}

RepeatInit ==
    /\ pc = "call"
    /\ question \in RepeatQuestions
    /\ cols \in RepeatCols
    /\ arg = NoArg
    /\ plan = NoPlan
    /\ df = NoTable
    /\ loaded = NoTable
    /\ result = NoResult
    /\ out = <<>>

\* plan = plan_from_nl(question, cols): the call reads the list and the
\* question and writes to neither
RepeatCall ==
    /\ pc = "call"
    /\ plan' = plan_from_nl(question, cols)
    /\ out' = Append(out, [q |-> question, cols |-> cols, plan |-> plan_from_nl(question, cols)])
    /\ pc' = "ret"
    /\ UNCHANGED <<question, cols, df, loaded, arg, result>>

\* The caller goes on to another call, with any question and list
RepeatAsk ==
    /\ pc = "ret"
    /\ Len(out) < MaxCalls
    /\ question' \in RepeatQuestions
    /\ cols' \in RepeatCols
    /\ pc' = "call"
    /\ UNCHANGED <<plan, df, loaded, arg, result, out>>

RepeatNext == RepeatCall \/ RepeatAsk

RepeatSpec == RepeatInit /\ [][RepeatNext]_vars

(***************************************************************************)
(* The tables of the model                                                 *)
(***************************************************************************)
MaxRows == 11

MaxZRows == 3

MaxThreshold == 3

\* columns.index(c) + 1
ColumnIndex(c, columns) == CHOOSE i \in 1..Len(columns) : columns[i] = c

\* The session table with the columns, their dtypes and the rows of data
Table(columns, dtypes, data) ==
    [id |-> "df", columns |-> columns,
     dtypes |-> [c \in Range(columns) |-> dtypes[ColumnIndex(c, columns)]],
     rows |-> [i \in 1..Len(data) |->
                 [idx |-> i - 1, cells |-> [c \in Range(columns) |-> data[i][ColumnIndex(c, columns)]]]]]

\* Texts in several cases, one number throughout
MixedTable ==
    Table(<<"region", "volume">>, <<"object", "int64">>,
          <<<<StrV("Northeast"), IntV(5)>>, <<StrV("TX"), IntV(5)>>, <<StrV("east"), IntV(5)>>>>)

\* A row of nulls
NullsTable ==
    Table(<<"region", "volume">>, <<"object", "float64">>,
          <<<<StrV("Northeast"), IntV(1)>>, <<Null, Null>>, <<StrV("tx"), IntV(9)>>>>)

\* No numeric column
TextTable == Table(<<"region">>, <<"object">>, <<<<StrV("East")>>, <<StrV("west")>>>>)

\* A text column of the str dtype
StrTable == Table(<<"region">>, <<"str">>, <<<<StrV("TX")>>, <<Null>>>>)

\* No rows
EmptyTable == Table(<<"region", "volume">>, <<"object", "object">>, <<>>)

\* Two equal rows
YearsTable ==
    Table(<<"volume", "year">>, <<"int64", "int64">>,
          <<<<IntV(3), IntV(2024)>>, <<IntV(1), IntV(2023)>>, <<IntV(3), IntV(2024)>>>>)

\* Two rows of one region, a row with none, a row of another
RegionsTable ==
    Table(<<"region", "volume">>, <<"object", "float64">>,
          <<<<StrV("A"), IntV(1)>>, <<StrV("A"), Null>>, <<Null, Null>>, <<StrV("B"), IntV(1)>>>>)

\* n rows, all 0 but the last, which is n
LongTable(n) == Table(<<"volume">>, <<"int64">>, [i \in 1..n |-> <<IF i = n THEN IntV(n) ELSE IntV(0)>>])

LongTables == {LongTable(n) : n \in PreviewRows..MaxRows}

ZCells == {IntV(0), IntV(5), Null}

\* Every column of up to MaxZRows cells of ZCells
ZTables ==
    UNION {{Table(<<"volume">>, <<IF \E i \in 1..n : IsNull(f[i]) THEN "float64" ELSE "int64">>, [i \in 1..n |-> <<f[i]>>]) :
                f \in [1..n -> ZCells]} : n \in 1..MaxZRows}

SessionTables == {MixedTable, NullsTable, TextTable, StrTable, EmptyTable, YearsTable, LongTable(MaxRows)}

Tables == {MixedTable, NullsTable, TextTable, StrTable, EmptyTable, YearsTable, RegionsTable} \cup LongTables \cup ZTables

Entry(k, v) == [key |-> k, value |-> v]

RegionEntries ==
    {Entry("region", v) : v \in {StrV("TX"), ContainsV("east"), ContainsV("an"), ContainsV("tx"),
                                 StartsWith("tx"), StartsWith("North"), EndsWith("tx"), EndsWith("east"),
                                 IsIn(<<StrV("TX"), StrV("east")>>), Gt(IntV(1)), Lt(StrV("T")), IntV(5)}}

VolumeEntries ==
    {Entry("volume", v) : v \in {IntV(5), FloatV("5e0"), StrV("TX"), Between(IntV(1), IntV(5)), Gt(IntV(1)),
                                 Gte(IntV(5)), Lt(IntV(5)), Lte(IntV(1)), IsIn(<<IntV(0), IntV(9)>>),
                                 ContainsV("5"), StartsWith("5."), Between(IntV(0), StrV("x"))}}

\* Entries for a column that no table has
UnknownEntries == {Entry("nosuch", v) : v \in {IntV(1), ContainsV("x"), Gt(IntV(0))}}

PairedEntries == {Entry("region", ContainsV("east")), Entry("volume", IntV(5)), Entry("volume", Gt(IntV(1))),
                  Entry("region", Gt(IntV(1)))}

FilterSpecs ==
    {<<>>} \cup {<<e>> : e \in RegionEntries \cup VolumeEntries \cup UnknownEntries}
           \cup {<<u, e>> : u \in UnknownEntries, e \in PairedEntries}
           \cup {<<e, u>> : u \in UnknownEntries, e \in PairedEntries}
           \cup {<<e, f>> : e \in {Entry("region", ContainsV("east"))}, f \in {Entry("volume", IntV(5)), Entry("volume", Gt(IntV(1)))}}

FewFilterSpecs == {<<>>, <<Entry("volume", Gte(IntV(3)))>>, <<Entry("region", Gt(IntV(1)))>>}

OpsMaps == {<<>>, <<Entry("volume", "sum")>>, <<Entry("volume", "mean")>>, <<Entry("region", "mean")>>,
            <<Entry("region", "max")>>, <<Entry("*", "count"), Entry("volume", "max")>>, <<Entry("nosuch", "sum")>>,
            <<Entry("volume", "mode")>>}

GroupByLists == {<<>>, <<"region">>, <<"volume">>, <<"nosuch">>}

\* Lists of grouping columns, of one table or another, for group_count
GroupCountLists == {<<>>, <<"region">>, <<"volume">>, <<"year">>, <<"region", "volume">>, <<"volume", "region">>,
                    <<"volume", "year">>, <<"nosuch", "region">>, <<"nosuch">>}

SortByLists == {<<"volume">>, <<"region">>, <<"nosuch">>, <<"region", "volume">>}

\* Questions whose plans the executor is given
PlannedQuestions == {"how many rows", "how many rows where region contains east", "how many rows where region = tx",
                     "how many rows where volume = 5", "how many rows in 2024", "count rows by region",
                     "average volume by region", "top 2 rows by volume", "largest 2 volume", "outlier in region"}

\* Plans of every type of the executor
TypedPlans ==
    {[type |-> "meta:shape"], [type |-> "meta:columns"], [type |-> "meta:dtypes"], [type |-> "meta:describe"],
     [type |-> "meta:head"], [type |-> "meta:head", n |-> 2], [type |-> "meta:tail"], [type |-> "meta:tail", n |-> 0],
     [type |-> "meta:missing"], [type |-> "meta:duplicates"],
     [type |-> "unique_count", col |-> "region"], [type |-> "unique_count", col |-> "volume"], [type |-> "unique_count"],
     [type |-> "value_counts", col |-> "region"], [type |-> "value_counts", col |-> "volume", n |-> 1],
     [type |-> "group_count"], [type |-> "group_count", group_by |-> <<"volume">>],
     [type |-> "group_count", group_by |-> <<"region", "volume">>],
     [type |-> "aggregate"],
     [type |-> "aggregate", ops |-> CountOnly, group_by |-> <<>>, filters |-> <<Entry("volume", Between(IntV(1), IntV(5)))>>],
     [type |-> "aggregate", ops |-> CountOnly, group_by |-> <<>>, filters |-> <<Entry("volume", Gt(IntV(1)))>>],
     [type |-> "aggregate", ops |-> CountOnly, group_by |-> <<>>, filters |-> <<Entry("nosuch", IntV(1)), Entry("year", IntV(2024))>>],
     [type |-> "aggregate", ops |-> <<Entry("volume", "sum")>>, group_by |-> <<"region">>, filters |-> <<>>],
     [type |-> "correlation"], [type |-> "correlation", cols |-> <<"year", "volume", "region">>],
     [type |-> "sort_top"], [type |-> "sort_top", by |-> <<"volume">>, ascending |-> TRUE, top_n |-> 2, filters |-> <<>>],
     [type |-> "anomaly:zscore"], [type |-> "anomaly:zscore", col |-> Some("region"), threshold |-> 1],
     [type |-> "anomaly:zscore_robust", col |-> None, threshold |-> 0],
     [type |-> "anomaly:iforest"], [type |-> "anomaly:iforest", cols |-> <<"region">>]}

\* Plans of no type of the executor
UntypedPlans ==
    {[type |-> "unknown"], [type |-> ""], [n |-> 3], [type |-> "anomaly"], [type |-> "anomaly:zscor"],
     [type |-> "meta"], [type |-> "Aggregate", ops |-> CountOnly], [type |-> "sort_top ", by |-> <<"volume">>],
     [type |-> "anomaly:iforest2", cols |-> <<"volume">>]}

Plans(columns) == TypedPlans \cup UntypedPlans \cup {plan_from_nl(q, columns) : q \in PlannedQuestions}

\* What clf.fit_predict(X) may flag: any rows for an isolation-forest plan
ForestChoices(data, p) ==
    IF Get(p, "type", "") = "anomaly:iforest" THEN SUBSET Positions(data) ELSE {{}}

NoCall == [op |-> "none"]

(***************************************************************************)
(* The operations called on a table, in any number and order               *)
(***************************************************************************)
OpsInit ==
    /\ pc = "idle"
    /\ df \in Tables
    /\ loaded = df
    /\ cols = df.columns
    /\ question = ""
    /\ plan = NoPlan
    /\ arg = NoCall
    /\ result = NoResult
    /\ out = NoOutput

\* result = apply_filters(df, filters)
ApplyFilters ==
    /\ pc = "idle"
    /\ \E f \in FilterSpecs :
          /\ arg' = [op |-> "apply_filters", filters |-> f]
          /\ result' = apply_filters(df, f)
    /\ pc' = "done"
    /\ UNCHANGED <<question, cols, plan, df, loaded, out>>

\* result = aggregate(df, group_by, ops, filters)
Aggregate ==
    /\ pc = "idle"
    /\ \E g \in GroupByLists, o \in OpsMaps, f \in FewFilterSpecs :
          /\ arg' = [op |-> "aggregate", group_by |-> g, ops |-> o, filters |-> f]
          /\ result' = aggregate(df, g, o, f)
    /\ pc' = "done"
    /\ UNCHANGED <<question, cols, plan, df, loaded, out>>

\* result = sort_top(df, by, top_n, ascending, filters)
SortTop ==
    /\ pc = "idle"
    /\ \E b \in SortByLists, n \in {0, MaxTopN}, a \in BOOLEAN, f \in FewFilterSpecs :
          /\ arg' = [op |-> "sort_top", by |-> b, top_n |-> n, ascending |-> a, filters |-> f]
          /\ result' = sort_top(df, b, n, a, f)
    /\ pc' = "done"
    /\ UNCHANGED <<question, cols, plan, df, loaded, out>>

\* result = zscore_outliers(df, col, threshold)
ZscoreOutliers ==
    /\ pc = "idle"
    /\ \E c \in {"volume", "region"}, t \in 0..MaxThreshold :
          /\ arg' = [op |-> "zscore_outliers", col |-> c, threshold |-> t]
          /\ result' = zscore_outliers(df, c, t)
    /\ pc' = "done"
    /\ UNCHANGED <<question, cols, plan, df, loaded, out>>

\* result = group_count(df, group_by)
GroupCount ==
    /\ pc = "idle"
    /\ \E g \in GroupCountLists :
          /\ arg' = [op |-> "group_count", group_by |-> g]
          /\ result' = group_count(df, g)
    /\ pc' = "done"
    /\ UNCHANGED <<question, cols, plan, df, loaded, out>>

\* result = execute_plan(df, plan)
ExecutePlan ==
    /\ pc = "idle"
    /\ \E p \in Plans(df.columns) : \E flagged \in ForestChoices(df, p) :
          /\ plan' = p
          /\ arg' = [op |-> "execute_plan"]
          /\ result' = execute_plan(df, p, flagged)
    /\ pc' = "done"
    /\ UNCHANGED <<question, cols, df, loaded, out>>

\* x with its first cell overwritten
Overwritten(x) ==
    [x EXCEPT !.rows[1].cells[x.columns[1]] = StrV("overwritten")]

\* The caller writes into the frame that apply_filters returned; a write into
\* an object is seen under every name the object has
MutateResult ==
    /\ pc = "done"
    /\ arg.op = "apply_filters"
    /\ ~IsRaise(result)
    /\ result.rows # <<>>
    /\ result' = Overwritten(result)
    /\ df' = IF df.id = result.id THEN Overwritten(df) ELSE df
    /\ pc' = "mutated"
    /\ UNCHANGED <<question, cols, plan, loaded, arg, out>>

\* The caller drops the result
DropResult ==
    /\ pc \in {"done", "mutated"}
    /\ pc' = "idle"
    /\ arg' = NoCall
    /\ plan' = NoPlan
    /\ result' = NoResult
    /\ UNCHANGED <<question, cols, df, loaded, out>>

OpsNext ==
    ApplyFilters \/ Aggregate \/ SortTop \/ ZscoreOutliers \/ GroupCount \/ ExecutePlan \/ MutateResult \/ DropResult

OpsSpec == OpsInit /\ [][OpsNext]_vars

(***************************************************************************)
(* agent.py: the session loop of main(), from its first question on        *)
(***************************************************************************)
\* What the user types at the prompt
SessionLines == {"exit", "QUIT", " quit ", "", "hello", "how many rows", "how many rows where region contains east",
                 "top 2 rows by volume", "largest 2 volume", "average volume by region", "average region",
                 "total volume per region", "outlier in region", "anything weird", "unique region", "describe",
                 "correlation", "trend over time"}

\* What the text-generation providers may answer
InsightReplies == {"none", "text", "error"}

SessionInit ==
    /\ pc = "ask"
    /\ df \in SessionTables
    /\ loaded = df
    /\ cols = df.columns
    /\ question = ""
    /\ plan = NoPlan
    /\ arg \in {[insights |-> b, reply |-> "unasked"] : b \in BOOLEAN}
    /\ result = NoResult
    /\ out = NoOutput

\* q = input(...).strip(), and the break on exit or quit
AskQuestion ==
    /\ pc = "ask"
    /\ \E line \in SessionLines :
          /\ question' = Strip(line)
          /\ IF Lower(Strip(line)) \in {"exit", "quit"}
             THEN pc' = "exited" /\ out' = "Goodbye!"
             ELSE pc' = "plan" /\ out' = out
    /\ UNCHANGED <<cols, plan, df, loaded, arg, result>>

\* plan = plan_from_nl(q, list(df.columns))
SessionPlan ==
    /\ pc = "plan"
    /\ plan' = plan_from_nl(question, df.columns)
    /\ pc' = "execute"
    /\ UNCHANGED <<question, cols, df, loaded, arg, result, out>>

\* result, method_note = execute_plan(df, plan); an exception ends main()
SessionExecute ==
    /\ pc = "execute"
    /\ \E flagged \in ForestChoices(df, plan) :
          /\ result' = execute_plan(df, plan, flagged)
          /\ pc' = IF IsRaise(execute_plan(df, plan, flagged)) THEN "crashed" ELSE "print"
    /\ UNCHANGED <<question, cols, plan, df, loaded, arg, out>>

\* print(format_answer(result, plan, method_note))
SessionPrint ==
    /\ pc = "print"
    /\ out' = format_answer(result.result, plan, result.note)
    /\ pc' = IF arg.insights THEN "insights" ELSE "ask"
    /\ UNCHANGED <<question, cols, plan, df, loaded, arg, result>>

\* The insights block: whatever it raises is swallowed; arg.reply keeps what
\* the providers would answer in this iteration
SessionInsights ==
    /\ pc = "insights"
    /\ \E reply \in InsightReplies :
          /\ out' = IF generate_insights(plan, reply) = "text"
                    THEN [answer |-> out.answer, plan |-> out.plan, method |-> out.method, preview |-> out.preview,
                          insight |-> "Insights (caveated):"]
                    ELSE out
          /\ arg' = [arg EXCEPT !.reply = reply]
    /\ pc' = "ask"
    /\ UNCHANGED <<question, cols, plan, df, loaded, result>>

SessionNext == AskQuestion \/ SessionPlan \/ SessionExecute \/ SessionPrint \/ SessionInsights

SessionSpec == SessionInit /\ [][SessionNext]_vars

\* The session when a call to the providers comes back, with an answer or
\* an exception
SessionFairSpec == SessionSpec /\ WF_vars(SessionInsights)

(***************************************************************************)
(* Claims about the planner                                                *)
(***************************************************************************)
\* C1: for every N >= 1 and every available column c, the plan of
\* "top N rows by c" is the sort_top plan with by = [c], ascending = False,
\* top_n = N and the extracted filters (none in this question).
C1_TopNRowsIsSortTop ==
    (pc = "ret" /\ arg.kind = "top" /\ InList(arg.x, cols))
        => plan = [type |-> "sort_top", by |-> <<arg.x>>, ascending |-> FALSE,
                   top_n |-> arg.n, filters |-> EmptyDict]

\* The question has none of the phrasings any rule tests for
NoRulePhrasing(q) ==
    /\ ~AnyIn(ShapeWords \cup ColumnsWords \cup DtypesWords \cup DescribeWords \cup HeadWords
              \cup TailWords \cup MissingWords \cup DuplicatesWords \cup UniqueWords
              \cup ValueCountsWords \cup RowCountWords \cup SumWords \cup AverageWords
              \cup CorrelationWords \cup OutlierWords \cup TrendWords, q)
    /\ ~Search(q, TopPatterns).ok

PlanTypes == {"meta:shape", "meta:columns", "meta:dtypes", "meta:describe", "meta:head", "meta:tail",
              "meta:missing", "meta:duplicates", "unique_count", "value_counts", "group_count",
              "aggregate", "correlation", "sort_top", "anomaly:zscore"}

\* C8: plan_from_nl returns a plan (it does not raise) for every question and
\* column list, the empty ones included, and a question with none of the rule
\* phrasings gets exactly the default plan: an ungrouped, unfiltered row count.
C8_NeverRaisesAndDefault ==
    pc = "ret" =>
        /\ plan.type \in PlanTypes
        /\ NoRulePhrasing(Lower(Strip(question)))
              => plan = [type |-> "aggregate", group_by |-> <<>>,
                         ops |-> <<[key |-> "*", value |-> "count"]>>, filters |-> <<>>]

C8_Witness ==
    /\ pc = "ret"
    /\ question = "where region = tx"
    /\ cols = <<"region", "volume">>
    /\ NoRulePhrasing(Lower(Strip(question)))
    /\ plan.type = "aggregate"

\* C9: for "average X by Y" with X and Y two different available columns, the
\* plan is the aggregate with ops = {X: 'mean'} and group_by = [Y], whatever the
\* order of the columns.
C9_AverageTargetsNamedColumn ==
    (pc = "ret" /\ arg.kind = "avg" /\ InList(arg.x, cols) /\ InList(arg.y, cols))
        => /\ plan.type = "aggregate"
           /\ plan.ops = <<[key |-> arg.x, value |-> "mean"]>>
           /\ plan.group_by = <<arg.y>>

(***************************************************************************)
(* Claims about the session loop, the executor and the operations          *)
(***************************************************************************)
\* C2: once the session loop runs, no question makes plan_from_nl or
\* execute_plan raise and end the session, whatever the table: the loop is
\* left only when the user types exit or quit.
C2_SessionSurvivesEveryQuestion ==
    /\ pc # "crashed"
    /\ pc = "exited" => Lower(question) \in {"exit", "quit"}

IsCountPlan(p) ==
    /\ Get(p, "type", "") = "aggregate"
    /\ Get(p, "ops", <<>>) = <<[key |-> "*", value |-> "count"]>>
    /\ Get(p, "group_by", <<>>) = <<>>

\* C3: for an aggregate plan with ops exactly {'*': 'count'} and no group_by,
\* execute_plan returns one row whose row_count is the number of rows of
\* apply_filters(table, plan.filters), for equality, contains, year and
\* range filters alike.
C3_CountMatchesApplyFilters ==
    (/\ pc = "done"
     /\ arg.op = "execute_plan"
     /\ IsCountPlan(plan)
     /\ \A i \in 1..Len(Get(plan, "filters", <<>>)) :
           plan.filters[i].value.k \in {"int", "float", "str", "contains", "between"}
     /\ ~IsRaise(apply_filters(df, Get(plan, "filters", <<>>))))
        => /\ ~IsRaise(result)
           /\ Len(result.result.rows) = 1
           /\ result.result.rows[1].cells["row_count"].v = Len(apply_filters(df, Get(plan, "filters", <<>>)).rows)

\* The row is one of the rows of the frame x
Kept(x, row) == \E j \in 1..Len(x.rows) : x.rows[j].idx = row.idx

\* C4: in apply_filters, contains, startswith and endswith each keep a row
\* whose value differs from the pattern only in letter case, and never keep a
\* row whose value in the filtered column is null.
C4_StringPredicatesIgnoreCaseAndNulls ==
    (/\ pc = "done"
     /\ arg.op = "apply_filters"
     /\ Len(arg.filters) = 1
     /\ arg.filters[1].value.k \in {"contains", "startswith", "endswith"}
     /\ InList(arg.filters[1].key, df.columns))
        => /\ ~IsRaise(result)
           /\ \A i \in 1..Len(df.rows) :
                /\ df.rows[i].cells[arg.filters[1].key].k = "null" => ~Kept(result, df.rows[i])
                /\ (/\ df.rows[i].cells[arg.filters[1].key].k = "str"
                    /\ Lower(df.rows[i].cells[arg.filters[1].key].v) = Lower(arg.filters[1].value.v))
                       => Kept(result, df.rows[i])

\* The entries of the filters whose column the table has
KnownEntries(filters, columns) == SelectSeq(filters, LAMBDA e : e.key \in {columns[i] : i \in 1..Len(columns)})

\* C5: apply_filters(T, F) skips the entries of F whose column T lacks (it
\* returns what it returns for the other entries alone, all rows when none is
\* left, and so does not raise on their account), and the rows it returns are
\* rows of T, no more of them than T has.
C5_UnknownColumnsSkipped ==
    (pc = "done" /\ arg.op = "apply_filters")
        => /\ result = apply_filters(df, KnownEntries(arg.filters, df.columns))
           /\ KnownEntries(arg.filters, df.columns) = <<>> => (~IsRaise(result) /\ result.rows = df.rows)
           /\ ~IsRaise(result)
                 => /\ Len(result.rows) <= Len(df.rows)
                    /\ \A j \in 1..Len(result.rows) : \E i \in 1..Len(df.rows) : result.rows[j] = df.rows[i]

C5_Witness ==
    /\ pc = "done"
    /\ arg.op = "apply_filters"
    /\ Len(arg.filters) = 2
    /\ arg.filters[1].key = "nosuch"
    /\ InList(arg.filters[2].key, df.columns)
    /\ ~IsRaise(result)
    /\ Len(result.rows) > 0
    /\ Len(result.rows) < Len(df.rows)

\* C6: whatever is executed, and in whatever order, the session table keeps
\* its rows, columns and values; and apply_filters(T, {}) returns a frame with
\* the content of T that is another object, so that a write into it leaves T
\* as it was.
C6_SessionTableNeverChanges ==
    /\ df = loaded
    /\ (pc \in {"done", "mutated"} /\ arg.op = "apply_filters" /\ arg.filters = <<>>)
          => /\ result.id # df.id
             /\ result.columns = df.columns
             /\ result.dtypes = df.dtypes
             /\ pc = "done" => result.rows = df.rows

C6_Witness ==
    /\ pc = "mutated"
    /\ arg.op = "apply_filters"
    /\ arg.filters = <<>>
    /\ result.rows # df.rows
    /\ df = loaded

\* The plan types the executor has a branch for
IsExecutorType(t) ==
    \/ t \in {"meta:shape", "meta:columns", "meta:dtypes", "meta:describe", "meta:head", "meta:tail",
              "meta:missing", "meta:duplicates", "unique_count", "value_counts", "group_count",
              "aggregate", "correlation", "sort_top", "anomaly:iforest"}
    \/ (Len(t) >= 14 /\ SubSeq(t, 1, 14) = "anomaly:zscore")

\* C7: for a plan whose type is none of the executor's types, a plan with no
\* type field included, execute_plan does not raise and returns the first 10
\* rows of the table (all of them if it has fewer) with the method note
\* 'Default preview'.
C7_UnknownTypeGivesDefaultPreview ==
    (pc = "done" /\ arg.op = "execute_plan" /\ ~IsExecutorType(IF "type" \in DOMAIN plan THEN plan.type ELSE ""))
        => /\ ~IsRaise(result)
           /\ result.note = "Default preview"
           /\ result.result.columns = df.columns
           /\ result.result.rows = [i \in 1..(IF Len(df.rows) < 10 THEN Len(df.rows) ELSE 10) |-> df.rows[i]]

C7_Witness ==
    /\ pc = "done"
    /\ arg.op = "execute_plan"
    /\ "type" \notin DOMAIN plan
    /\ Len(df.rows) > 10
    /\ ~IsRaise(result)
    /\ Len(result.result.rows) = 10

\* The sum over j of x[i] - x[j]: n times the distance of x[i] from the mean
FromMean(xs, i) == SumSeq([j \in 1..Len(xs) |-> xs[i] - xs[j]])

\* |x[i] - mean| > t * std, std the population standard deviation
BeyondStd(xs, i, t) ==
    FromMean(xs, i) * FromMean(xs, i) * Len(xs) > t * t * SumSeq([j \in 1..Len(xs) |-> FromMean(xs, j) * FromMean(xs, j)])

\* The values of the column, nulls left out, and the place of row i among them
ColumnValues(data, col) == Values(NonNull(data.rows, col), col)

PlaceOf(data, col, i) == Cardinality({j \in 1..i : ~IsNull(data.rows[j].cells[col])})

\* C10: zscore_outliers on a column of N >= 1 identical values returns no row
\* for threshold 3.0, and in general returns a row exactly when its
\* |z| >= threshold, z = (x - mean) / (std + 1e-9): every row with a value for
\* threshold 0 (the bound is inclusive, z = 0 is returned), and for a
\* threshold t > 0 the rows with |x - mean| > t * std (for whole numbers this
\* is |x - mean| >= t * (std + 1e-9)).
C10_ZscoreBoundInclusive ==
    (pc = "done" /\ arg.op = "zscore_outliers" /\ ~IsRaise(result))
        => /\ (/\ arg.threshold = 3
               /\ df.rows # <<>>
               /\ \A i \in 1..Len(df.rows) : df.rows[i].cells[arg.col] = df.rows[1].cells[arg.col])
                  => result.rows = <<>>
           /\ \A i \in 1..Len(df.rows) :
                Kept(result, df.rows[i])
                    <=> /\ ~IsNull(df.rows[i].cells[arg.col])
                        /\ \/ arg.threshold = 0
                           \/ BeyondStd(ColumnValues(df, arg.col), PlaceOf(df, arg.col, i), arg.threshold)

C10_Witness ==
    /\ pc = "done"
    /\ arg.op = "zscore_outliers"
    /\ arg.threshold = 3
    /\ ~IsRaise(result)
    /\ Len(df.rows) >= 2
    /\ \A i \in 1..Len(df.rows) : df.rows[i].cells[arg.col] = IntV(5)
    /\ result.rows = <<>>

\* The cells of a row in the columns by, a missing value like any other
GroupKey(row, by) == [g \in 1..Len(by) |-> row.cells[by[g]]]

\* The rows of data with the grouping values of row
RowsLike(data, row, by) == {j \in 1..Len(data.rows) : GroupKey(data.rows[j], by) = GroupKey(row, by)}

\* frame has one row for each combination of values of the columns by in
\* data, with the number of its rows, and no other row
CountsEveryGroup(frame, data, by) ==
    /\ ~IsRaise(frame)
    /\ frame.columns = by \o <<"row_count">>
    /\ \A i \in 1..Len(data.rows) :
          Cardinality({r \in 1..Len(frame.rows) : GroupKey(frame.rows[r], by) = GroupKey(data.rows[i], by)}) = 1
    /\ \A r \in 1..Len(frame.rows) :
          /\ RowsLike(data, frame.rows[r], by) # {}
          /\ frame.rows[r].cells["row_count"] = IntV(Cardinality(RowsLike(data, frame.rows[r], by)))
    /\ SumSeq([r \in 1..Len(frame.rows) |-> frame.rows[r].cells["row_count"].v]) = Len(data.rows)

\* The plans that execute_plan answers with group_count
IsGroupCountPlan(p) ==
    \/ Get(p, "type", "") = "group_count"
    \/ (Get(p, "type", "") = "aggregate" /\ Get(p, "ops", <<>>) = CountOnly /\ Get(p, "group_by", <<>>) # <<>>)

\* C11: group_count, called directly or through execute_plan, returns for
\* the grouping columns that the table has exactly one row per distinct
\* combination of their values, a missing value being a value of its own,
\* with the number of rows of that combination as row_count; the row_counts
\* add up to the number of rows of the table.
C11_GroupCountKeepsNullGroup ==
    /\ (pc = "done" /\ arg.op = "group_count" /\ Present(arg.group_by, df.columns) # <<>>)
          => CountsEveryGroup(result, df, Present(arg.group_by, df.columns))
    /\ (/\ pc = "done"
        /\ arg.op = "execute_plan"
        /\ IsGroupCountPlan(plan)
        /\ Present(Get(plan, "group_by", <<>>), df.columns) # <<>>)
          => /\ ~IsRaise(result)
             /\ CountsEveryGroup(result.result, df, Present(plan.group_by, df.columns))

C11_Witness ==
    /\ pc = "done"
    /\ arg.op = "group_count"
    /\ arg.group_by = <<"region">>
    /\ df = RegionsTable
    /\ ~IsRaise(result)
    /\ Len(result.rows) = 3
    /\ {result.rows[r].cells : r \in 1..3}
          = {[c \in {"region", "row_count"} |-> IF c = "region" THEN x[1] ELSE IntV(x[2])] :
                x \in {<<StrV("A"), 2>>, <<Null, 1>>, <<StrV("B"), 1>>}}

RuleOrder == <<"shape", "columns", "dtypes", "describe", "head", "tail", "missing", "duplicates", "unique-count",
               "value-counts", "row-count", "top-N sort", "sum/total", "average/mean", "correlation", "outlier",
               "trend", "default">>

\* The question q has the phrasing of the rule
HasPhrasing(rule, q) ==
    CASE rule = "shape" -> \E w \in ShapeWords : Contains(w, q)
      [] rule = "columns" -> \E w \in ColumnsWords : Contains(w, q)
      [] rule = "dtypes" -> \E w \in DtypesWords : Contains(w, q)
      [] rule = "describe" -> \E w \in DescribeWords : Contains(w, q)
      [] rule = "head" -> \E w \in HeadWords : Contains(w, q)
      [] rule = "tail" -> \E w \in TailWords : Contains(w, q)
      [] rule = "missing" -> \E w \in MissingWords : Contains(w, q)
      [] rule = "duplicates" -> \E w \in DuplicatesWords : Contains(w, q)
      [] rule = "unique-count" -> \E w \in UniqueWords : Contains(w, q)
      [] rule = "value-counts" -> \E w \in ValueCountsWords : Contains(w, q)
      [] rule = "row-count" -> \E w \in RowCountWords : Contains(w, q)
      [] rule = "top-N sort" -> Search(q, TopPatterns).ok
      [] rule = "sum/total" -> \E w \in SumWords : Contains(w, q)
      [] rule = "average/mean" -> \E w \in AverageWords : Contains(w, q)
      [] rule = "correlation" -> \E w \in CorrelationWords : Contains(w, q)
      [] rule = "outlier" -> \E w \in OutlierWords : Contains(w, q)
      [] rule = "trend" -> \E w \in TrendWords : Contains(w, q)
      [] OTHER -> TRUE

\* The column that a unique-count, value-counts or top-N rule needs
NeededColumn(rule, q, columns) ==
    IF rule = "top-N sort" THEN _resolve_col_from_text(Search(q, TopPatterns).groups[2], columns)
    ELSE _resolve_col_from_text(q, columns)

\* The rule emits a plan for q: it has the phrasing and, if it needs a column, the column resolves
Emits(rule, q, columns) ==
    /\ HasPhrasing(rule, q)
    /\ rule \in {"unique-count", "value-counts", "top-N sort"} => Truthy(NeededColumn(rule, q, columns))

\* The earliest rule of the order that emits a plan
Deciding(q, columns) == RuleOrder[MinOf({i \in 1..Len(RuleOrder) : Emits(RuleOrder[i], q, columns)})]

\* The plan the rule emits by itself
PlanOf(rule, q, columns) ==
    CASE rule = "shape" -> [type |-> "meta:shape"]
      [] rule = "columns" -> [type |-> "meta:columns"]
      [] rule = "dtypes" -> [type |-> "meta:dtypes"]
      [] rule = "describe" -> [type |-> "meta:describe"]
      [] rule = "head" -> [type |-> "meta:head", n |-> OrInt(_extract_int(q), DefaultHeadN)]
      [] rule = "tail" -> [type |-> "meta:tail", n |-> OrInt(_extract_int(q), DefaultHeadN)]
      [] rule = "missing" -> [type |-> "meta:missing"]
      [] rule = "duplicates" -> [type |-> "meta:duplicates"]
      [] rule = "unique-count" -> [type |-> "unique_count", col |-> NeededColumn(rule, q, columns)[1]]
      [] rule = "value-counts" -> [type |-> "value_counts", col |-> NeededColumn(rule, q, columns)[1],
                                   n |-> OrInt(_extract_int(q), DefaultValueCountsN)]
      [] rule = "row-count" -> RowCountRule(q, columns, _extract_year(q), _extract_filters(q, columns))
      [] rule = "top-N sort" -> [type |-> "sort_top", by |-> <<NeededColumn(rule, q, columns)[1]>>, ascending |-> FALSE,
                                 top_n |-> ParseDigits(Search(q, TopPatterns).groups[1]),
                                 filters |-> _extract_filters(q, columns)]
      [] rule = "sum/total" -> SumRule(q, columns, _extract_year(q), _extract_filters(q, columns))
      [] rule = "average/mean" -> AverageRule(q, columns, _extract_year(q), _extract_filters(q, columns))
      [] rule = "correlation" -> CorrelationRule(columns)
      [] rule = "outlier" -> OutlierRule(q, columns)
      [] rule = "trend" -> TrendRule(q, columns)
      [] OTHER -> DefaultPlan

\* The rules of the order that emit a plan for q
EmittingRules(q, columns) == {i \in 1..Len(RuleOrder) - 1 : Emits(RuleOrder[i], q, columns)}

\* C13: the plan of a question is the plan of the earliest rule, in the
\* order shape, columns, dtypes, describe, head, tail, missing, duplicates,
\* unique-count, value-counts, row-count, top-N sort, sum/total,
\* average/mean, correlation, outlier, trend, default, that has the
\* question's phrasing; a unique-count, value-counts or top-N rule whose
\* column does not resolve is passed over and the later rules decide.
C13_FirstMatchingRuleDecides ==
    pc = "ret" => plan = PlanOf(Deciding(Lower(Strip(question)), cols), Lower(Strip(question)), cols)

C13_Witness ==
    /\ pc = "ret"
    /\ question = "total average volume"
    /\ cols = <<"region", "volume">>
    /\ {RuleOrder[i] : i \in EmittingRules(question, cols)} = {"sum/total", "average/mean"}
    /\ Deciding(question, cols) = "sum/total"
    /\ plan.type = "aggregate"
    /\ plan.ops = <<[key |-> "volume", value |-> "sum"]>>

\* The plan types that insights are written for
HasInsights(p) ==
    \/ p.type \in {"aggregate", "correlation", "group_count", "sort_top"}
    \/ (Len(p.type) >= 7 /\ SubSeq(p.type, 1, 7) = "anomaly")

\* The insights step, once the answer is out: an insight is printed only
\* if the plan's type has insights and the providers answered with a text;
\* in every case the loop is back at its prompt
InsightsStep ==
    pc = "insights"
        => /\ pc' = "ask"
           /\ (arg'.reply \in {"none", "error"} \/ ~HasInsights(plan)) => out' = out
           /\ out' # out => (/\ out'.insight = "Insights (caveated):"
                             /\ [f \in DOMAIN out |-> out'[f]] = out)

\* C14: with --insights, insight generation is attempted only after the
\* answer to the question is printed; when it fails (no credential, an
\* exception of the provider) or the plan's type is none of aggregate,
\* correlation, anomaly*, group_count, sort_top, nothing more is printed,
\* nothing is raised, and the loop asks for the next question.
C14_InsightFailureIsSilent ==
    /\ [](pc = "insights" => (arg.insights /\ out = format_answer(result.result, plan, result.note)))
    /\ [][InsightsStep]_vars
    /\ (pc = "insights" ~> pc = "ask")

C14_Witness ==
    /\ pc = "ask"
    /\ arg.insights
    /\ arg.reply = "error"
    /\ plan.type = "aggregate"
    /\ out = format_answer(result.result, plan, result.note)

\* The column names that the plan p refers to: col, by, group_by, the keys
\* of filters and the keys of ops other than '*'
Referred(p) ==
    (IF "col" \in DOMAIN p
     THEN (IF p.type = "anomaly:zscore" THEN {p.col[i] : i \in 1..Len(p.col)} ELSE {p.col})
     ELSE {})
    \cup (IF "by" \in DOMAIN p THEN {p.by[i] : i \in 1..Len(p.by)} ELSE {})
    \cup (IF "group_by" \in DOMAIN p THEN {p.group_by[i] : i \in 1..Len(p.group_by)} ELSE {})
    \cup (IF "filters" \in DOMAIN p THEN {p.filters[i].key : i \in 1..Len(p.filters)} ELSE {})
    \cup (IF "ops" \in DOMAIN p THEN {p.ops[i].key : i \in 1..Len(p.ops)} \ {"*"} ELSE {})

\* C15: every column that a plan of plan_from_nl refers to (col, by,
\* group_by, the keys of filters, the keys of ops but '*') is one of the
\* available columns passed in; an anomaly:zscore plan has col = None only
\* when no column is available; and the plan's type is one that execute_plan
\* has a branch for.
C15_PlanRefersToAvailableColumns ==
    pc = "ret"
        => /\ Referred(plan) \subseteq {cols[i] : i \in 1..Len(cols)}
           /\ plan.type = "anomaly:zscore" => (plan.col = None <=> cols = <<>>)
           /\ (plan.type # "anomaly:zscore" /\ "col" \in DOMAIN plan) => plan.col \in {cols[i] : i \in 1..Len(cols)}
           /\ IsExecutorType(plan.type)

C15_Witness ==
    /\ pc = "ret"
    /\ question = "sum in 2024"
    /\ cols = <<"volume", "year">>
    /\ Referred(plan) = {"volume", "year"}
    /\ plan.filters = <<[key |-> "year", value |-> IntV(2024)]>>

====
